---- MODULE Spec2Model ----
(***************************************************************************)
(* A model of the physics layer of aurora-webgl-landing.                   *)
(*                                                                         *)
(* Spec        the public API of createPhysicsLayer (resize, setDensity,   *)
(*             step) over the body list and the Matter world, in the cage  *)
(*             variant (src/src/physics.ts), the spatial-hash variant      *)
(*             (src/unnamed/part_004) and the early variant                *)
(*             (src/unnamed/part_005), which differ in the density range   *)
(*             and in the accumulator cap.  A body is its identity here.   *)
(* SpecLayout  resize and setDensity of the cage variant with the layout   *)
(*             rebuildAll computes: spawn points, cages, body positions.   *)
(* SpecHash    the neighbour search of the spatial-hash variant            *)
(*             (buildSpatialGrid, applyAntiClusterSpatialHash).            *)
(* SpecSlot    one body slot of the cage variant through rebuilds, force   *)
(*             passes (softWalls, impulses, morph) and Engine.update.      *)
(* SpecTwin    two runs of the cage variant given the same calls, one of   *)
(*             them also the calls of setMood, setMode and setMaterial.    *)
(* SpecDraw    the passes of draw over bodies with given vertex lists.     *)
(* SpecLoop    the frame loop and the visibility listener of the           *)
(*             orchestrator (src/unnamed/part_002).                        *)
(* SpecScale   meta.scale and the size of a body through morph events.     *)
(* SpecGrid    gridCages and rebuildAll of the steering variant            *)
(*             (src/unnamed/part_003).                                     *)
(* SpecSteer   one body slot of the steering variant: morph and            *)
(*             keepInsideSteer.                                            *)
(* SpecMouse   the pointer from the orchestrator's setMouse to the mouse   *)
(*             test of applyForces, on canvases of several shapes.         *)
(* SpecTimer   the colour and morph timers of one meta through the         *)
(*             sub-steps of step.                                          *)
(* SpecParam   restitution and air friction of a body for a given cfg.     *)
(* SpecWorld   the world of the spatial-hash variant (walls, bodies,       *)
(*             springs) through resize and setDensity.                     *)
(* SpecLazy    the deferred start of the physics layer in the              *)
(*             orchestrator: timer, import, frames and events.             *)
(*                                                                         *)
(* Time is counted in ticks of 1/300 s, so that the fixed sub-step 1/60 s  *)
(* is 5 ticks, the cap 0.24 s is 72 ticks and the cap 0.2 s is 60 ticks.   *)
(***************************************************************************)
EXTENDS Integers, Sequences, FiniteSets, TLC

VARIABLES
    variant,    \* which createPhysicsLayer: "cage", "hash" or "early"
    w, h,       \* let w, h: the canvas size of the last resize
    count,      \* cfg.count
    metas,      \* the body list (metas / bodies): a sequence of body ids
    world,      \* the bodies in engine.world
    gen,        \* number of full rebuilds so far
    made,       \* bodies created since the last full rebuild
    acc,        \* let acc: the accumulated time debt, in ticks
    pc,         \* position inside step: "idle", "loop" or "forced"
    subSteps,   \* sub-steps run by the current (or last) step call
    evs,        \* events of the current (or last) step call, in order
    calls,      \* the last two API calls, newest last
    layout,     \* per body of the list: its cage and its spawn position
    hbodies,    \* spatial hash: the positions of the bodies
    hradius,    \* spatial hash: the neighbour radius queried
    hnear,      \* spatial hash: the neighbour pairs the last query found
    cage,       \* one body slot: meta.cage
    body,       \* one body slot: meta.body, its kinematic state and force
    wob,        \* one body slot: the offset of the cage centre at time t
    bpc,        \* one body slot: position inside step
    sub,        \* one body slot: sub-steps run by the current call of step
    repl,       \* one body slot: the replacement morph has just made
    runA, runB, \* two runs: the state of each createPhysicsLayer
    tlast,      \* two runs: the last call made and its argument
    tcalls,     \* two runs: calls made so far
    dverts,     \* renderer: per body, the length of body.vertices
    dres,       \* renderer: what the last draw call did
    hidden,     \* frame loop: document.hidden
    running,    \* frame loop: let running
    now,        \* frame loop: the clock, in ticks
    last,       \* frame loop: let last, the time of the previous frame
    frame,      \* frame loop: what the last frame callback did
    vis,        \* frame loop: the current or last spell of being hidden
    mscale,     \* morph scale: meta.scale, in hundredths
    mactual,    \* morph scale: size of the live body over its size as built
    mevs,       \* morph scale: the morph events so far
    gdims,      \* steering variant: the canvas size w, h
    gcount,     \* steering variant: cfg.count
    gres,       \* steering variant: the outcome of the last rebuildAll
    sbody,      \* steering variant, one slot: meta.body
    scage,      \* steering variant, one slot: meta.cage
    srepl,      \* steering variant, one slot: the last replacement by morph
    ssub,       \* steering variant, one slot: sub-steps since the rebuild
    sforced,    \* steering variant, one slot: the body after the force pass
    mwin,       \* pointer: the window, innerWidth, innerHeight and dpr
    mcanvas,    \* pointer: let w, h of the physics layer
    mstore,     \* pointer: let mx, my of the physics layer
    mbody,      \* pointer: the position of one body
    mres,       \* pointer: the mouse test of the last force pass
    mptr,       \* pointer: the last pointer event
    tmeta,      \* timers: nextColor and nextMorph of one body
    tstep,      \* timers: the current (or last) call of step
    pcfg,       \* parameters: cfg.restitution and cfg.frictionAir
    pbody,      \* parameters: restitution and frictionAir of one body
    hw,         \* spatial hash world: walls, bodies and constraints
    hcfg,       \* spatial hash world: canvas size, cfg.count, rebuilds
    lz,         \* lazy start: the state of the orchestrator
    lzlog       \* lazy start: what has happened so far

apiVars == <<variant, w, h, count, metas, world, gen, made, acc, pc,
             subSteps, evs, calls>>

hashVars == <<hbodies, hradius, hnear>>
slotVars == <<cage, body, wob, bpc, sub, repl>>

twinVars == <<runA, runB, tlast, tcalls>>

drawVars == <<dverts, dres>>
loopVars == <<hidden, running, now, last, frame, vis>>
scaleVars == <<mscale, mactual, mevs>>
gridVars == <<gdims, gcount, gres>>
steerVars == <<sbody, scage, srepl, ssub, sforced>>
mouseVars == <<mwin, mcanvas, mstore, mbody, mres, mptr>>
timerVars == <<tmeta, tstep>>
paramVars == <<pcfg, pbody>>
worldVars == <<hw, hcfg>>
lazyVars == <<lz, lzlog>>

\* the variables the other models add
moreVars == <<twinVars, drawVars, loopVars, scaleVars, gridVars, steerVars,
              mouseVars, timerVars, paramVars, worldVars, lazyVars>>

\* the variables of the models before the pointer model
firstVars == <<apiVars, layout, hashVars, slotVars, twinVars, drawVars,
               loopVars, scaleVars, gridVars, steerVars>>

\* the state the API model leaves out
notApi == <<layout, hashVars, slotVars, moreVars>>

\* the state the model of two runs leaves out
notTwin == <<apiVars, layout, hashVars, slotVars, drawVars, loopVars,
             scaleVars, gridVars, steerVars,
              mouseVars, timerVars, paramVars, worldVars, lazyVars>>

\* the state the renderer model leaves out
notDraw == <<apiVars, layout, hashVars, slotVars, twinVars, loopVars,
             scaleVars, gridVars, steerVars,
              mouseVars, timerVars, paramVars, worldVars, lazyVars>>

\* the state the frame loop model leaves out
notLoop == <<apiVars, layout, hashVars, slotVars, twinVars, drawVars,
             scaleVars, gridVars, steerVars,
              mouseVars, timerVars, paramVars, worldVars, lazyVars>>

\* the state the morph scale model leaves out
notScale == <<apiVars, layout, hashVars, slotVars, twinVars, drawVars,
              loopVars, gridVars, steerVars,
               mouseVars, timerVars, paramVars, worldVars, lazyVars>>

\* the state the model of the steering variant's rebuild leaves out
notGrid == <<apiVars, layout, hashVars, slotVars, twinVars, drawVars,
             loopVars, scaleVars, steerVars,
              mouseVars, timerVars, paramVars, worldVars, lazyVars>>

\* the state the model of the steering variant's slot leaves out
notMouse == <<firstVars, timerVars, paramVars, worldVars, lazyVars>>
notTimer == <<firstVars, mouseVars, paramVars, worldVars, lazyVars>>
notParam == <<firstVars, mouseVars, timerVars, worldVars, lazyVars>>
notWorld == <<firstVars, mouseVars, timerVars, paramVars, lazyVars>>
notLazy == <<firstVars, mouseVars, timerVars, paramVars, worldVars>>

\* the state the model of the steering variant's slot leaves out
notSteer == <<apiVars, layout, hashVars, slotVars, twinVars, drawVars,
              loopVars, scaleVars, gridVars,
               mouseVars, timerVars, paramVars, worldVars, lazyVars>>

vars == <<apiVars, layout, hashVars, slotVars, moreVars>>

-----------------------------------------------------------------------------
(* Bounds of the model *)

\* full rebuilds explored in one behaviour
MaxRebuilds == 2
\* morph replacements explored between two full rebuilds
MaxMorphs == 2

(* Program constants *)

\* const fixed = 1 / 60, in ticks of 1/300 s
Fixed == 5
\* acc = Math.min(acc, 0.24), in ticks
AccCapCage == 72
\* acc = Math.min(acc, 0.2) in the early variant, in ticks
AccCapEarly == 60
\* clamp(Math.round(count), 60, 240)
MinCountCage == 60
MaxCountCage == 240
\* clamp(Math.round(count), 80, 220)
MinCountHash == 80
MaxCountHash == 220

Variants == {"cage", "hash", "early"}

\* cfg.count as configured by the caller: 22 is the orchestrator's CONFIG
\* value, 60 is a count the cage variants accept as it is
InitCounts == {22, 60}

\* arguments of resize(W, H, dpr)
Dims == {<<20, 20>>, <<800, 600>>}

\* arguments of setDensity, in halves (119 is 59.5, 2000 is 1000)
DensityInputs == {0, 119, 300, 2000}

\* deltaSeconds of step, in ticks: 0, 1/150 s, one sub-step, 0.05 s, 5 s
DtSet == {0, 2, 5, 15, 1500}

-----------------------------------------------------------------------------
(* Helpers *)

Min(a, b) == IF a < b THEN a ELSE b
Max(a, b) == IF a > b THEN a ELSE b

\* const clamp = (v, a, b) => Math.max(a, Math.min(b, v))
Clamp(v, a, b) == Max(a, Min(b, v))

\* Math.round of n2 / 2: the nearest integer, halves rounded up
RoundHalf(n2) == (n2 + 1) \div 2

MinCount(v) == IF v = "hash" THEN MinCountHash ELSE MinCountCage
MaxCount(v) == IF v = "hash" THEN MaxCountHash ELSE MaxCountCage
AccCap(v) == IF v = "early" THEN AccCapEarly ELSE AccCapCage

\* const c = clamp(Math.round(count), 60, 240)
ClampDensity(v, n2) == Clamp(RoundHalf(n2), MinCount(v), MaxCount(v))

\* the bodies a sequence of ids refers to
Range(s) == {s[i] : i \in 1..Len(s)}

\* Composite.clear(world, false): the world after clearing, given its bodies
ClearWorld(bodies) == {}

\* the bodies rebuildAll creates: one per index i < cfg.count
NewBodies(g, n) == [i \in 1..n |-> <<g, i>>]

\* the slots whose morph may replace the body in one force pass: the first
\* and the last of the list stand for all of them
MorphSlots == IF Len(metas) = 0 THEN {} ELSE {1, Len(metas)}

\* a mutation of RemoveBodies: the replaced bodies stay in the world
RemoveBodiesLeak(bodies, olds) == bodies

\* Composite.remove(world, b) in morph, for each replaced body
RemoveBodies(bodies, olds) == bodies \ olds

\* a mutation of CapAcc: the accumulated debt is not clamped
CapAccNone(v, a) == a

\* acc = Math.min(acc, 0.24)
CapAcc(v, a) == Min(a, AccCap(v))

-----------------------------------------------------------------------------
(* Operations *)

\* the record of an API call: its argument, for setDensity the clamped value
\* c, whether it rebuilt, and cfg.count before it
Note(op, arg, c, rebuilt) ==
    LET rec == [op |-> op, arg |-> arg, c |-> c, rebuilt |-> rebuilt,
                before |-> count]
    IN  IF Len(calls) < 2 THEN Append(calls, rec) ELSE <<calls[2], rec>>

\* rebuildAll (rebuildBodies in the hash and early variants): clear the world,
\* create cfg.count bodies, add them
RebuildAll(n) ==
    /\ metas' = NewBodies(gen + 1, n)
    /\ world' = ClearWorld(world) \cup Range(NewBodies(gen + 1, n))
    /\ gen' = gen + 1
    /\ made' = n

\* resize: (W, H, _dpr) => { w = W; h = H; ...; rebuildAll(); }
Resize(d) ==
    /\ pc = "idle"
    /\ gen < MaxRebuilds
    /\ w' = d[1]
    /\ h' = d[2]
    /\ RebuildAll(count)
    /\ calls' = Note("resize", d, 0, TRUE)
    /\ UNCHANGED <<variant, count, acc, pc, subSteps, evs>>

\* a mutation of SetDensity: no early return, every call rebuilds
SetDensityAlways(n2) ==
    /\ pc = "idle"
    /\ variant # "early"
    /\ gen < MaxRebuilds
    /\ count' = ClampDensity(variant, n2)
    /\ RebuildAll(ClampDensity(variant, n2))
    /\ calls' = Note("setDensity", n2, ClampDensity(variant, n2), TRUE)
    /\ UNCHANGED <<variant, w, h, acc, pc, subSteps, evs>>

\* setDensity: (count) => { const c = clamp(...); if (c === cfg.count) return;
\*                          cfg.count = c; rebuildAll(); }
SetDensity(n2) ==
    /\ pc = "idle"
    /\ variant # "early"
    /\ LET c == ClampDensity(variant, n2)
       IN  IF c = count
           THEN /\ calls' = Note("setDensity", n2, c, FALSE)
                /\ UNCHANGED <<count, metas, world, gen, made>>
           ELSE /\ gen < MaxRebuilds
                /\ count' = c
                /\ RebuildAll(c)
                /\ calls' = Note("setDensity", n2, c, TRUE)
    /\ UNCHANGED <<variant, w, h, acc, pc, subSteps, evs>>

\* a mutation of StepBegin: the debt is not clamped
StepBeginUncapped(dt) ==
    /\ pc = "idle"
    /\ acc' = acc + dt
    /\ pc' = "loop"
    /\ subSteps' = 0
    /\ evs' = <<>>
    /\ calls' = Note("step", dt, 0, FALSE)
    /\ UNCHANGED <<variant, w, h, count, metas, world, gen, made>>

\* step, up to the loop: acc += dt; acc = Math.min(acc, 0.24);
StepBegin(dt) ==
    /\ pc = "idle"
    /\ acc' = CapAcc(variant, acc + dt)
    /\ pc' = "loop"
    /\ subSteps' = 0
    /\ evs' = <<>>
    /\ calls' = Note("step", dt, 0, FALSE)
    /\ UNCHANGED <<variant, w, h, count, metas, world, gen, made>>

\* morph's rebuild path on the slots of S: Composite.remove(world, b);
\* meta.body = newBody; Composite.add(world, newBody)
Replace(S) ==
    LET slots == IF S = {} THEN <<>>
                 ELSE IF Cardinality(S) = 1 THEN <<CHOOSE i \in S : TRUE>>
                 ELSE <<1, Len(metas)>>
        fresh(k) == <<gen, made + k>>
        olds == {metas[i] : i \in S}
        news == {fresh(k) : k \in 1..Len(slots)}
    IN  /\ metas' = [i \in 1..Len(metas) |->
                        IF i \in S
                        THEN fresh(CHOOSE k \in 1..Len(slots) : slots[k] = i)
                        ELSE metas[i]]
        /\ world' = RemoveBodies(world, olds) \cup news
        /\ made' = made + Len(slots)

\* while (acc >= fixed) { applyForces(t); ...: one pass over all metas; in the
\* cage variant morph replaces the bodies of the slots S
ApplyForces ==
    /\ pc = "loop"
    /\ acc >= Fixed
    /\ \E S \in SUBSET MorphSlots :
          /\ S # {} => variant = "cage"
          /\ made + Cardinality(S) <= count + MaxMorphs
          /\ Replace(S)
    /\ pc' = "forced"
    /\ evs' = Append(evs, "force")
    /\ UNCHANGED <<variant, w, h, count, gen, acc, subSteps, calls>>

\* a mutation of EngineUpdate: the loop does not return to the force pass,
\* so the world may be advanced again
EngineUpdateTwice ==
    /\ pc = "forced"
    /\ acc' = acc - Fixed
    /\ subSteps' = subSteps + 1
    /\ pc' = IF acc - Fixed >= Fixed THEN "forced" ELSE "loop"
    /\ evs' = Append(evs, "advance")
    /\ UNCHANGED <<variant, w, h, count, metas, world, gen, made, calls>>

\* ... Engine.update(engine, fixed * 1000); acc -= fixed; }
EngineUpdate ==
    /\ pc = "forced"
    /\ acc' = acc - Fixed
    /\ subSteps' = subSteps + 1
    /\ pc' = "loop"
    /\ evs' = Append(evs, "advance")
    /\ UNCHANGED <<variant, w, h, count, metas, world, gen, made, calls>>

\* a mutation of Draw: nothing is drawn when no sub-step ran
DrawIfStepped ==
    /\ pc = "loop"
    /\ acc < Fixed
    /\ pc' = "idle"
    /\ evs' = IF subSteps = 0 THEN evs ELSE Append(evs, "draw")
    /\ UNCHANGED <<variant, w, h, count, metas, world, gen, made, acc,
                   subSteps, calls>>

\* draw(t), once the loop has ended
Draw ==
    /\ pc = "loop"
    /\ acc < Fixed
    /\ pc' = "idle"
    /\ evs' = Append(evs, "draw")
    /\ UNCHANGED <<variant, w, h, count, metas, world, gen, made, acc,
                   subSteps, calls>>

\* the spatial hash and the single body slot are not part of this model
HashOff == hbodies = <<>> /\ hradius = 0 /\ hnear = {}
SlotOff == cage = <<>> /\ body = <<>> /\ wob = <<0, 0>> /\ bpc = "off"
           /\ sub = 0 /\ repl = <<>>
TwinOff == runA = <<>> /\ runB = <<>> /\ tlast = <<>> /\ tcalls = 0
DrawOff == dverts = <<>> /\ dres = <<>>
LoopOff == hidden = FALSE /\ running = FALSE /\ now = 0 /\ last = 0
           /\ frame = <<>> /\ vis = <<>>
ScaleOff == mscale = 0 /\ mactual = <<>> /\ mevs = <<>>
GridOff == gdims = <<>> /\ gcount = 0 /\ gres = <<>>
SteerOff == sbody = <<>> /\ scage = <<>> /\ srepl = <<>> /\ ssub = 0
            /\ sforced = <<>>
MouseOff == mwin = <<>> /\ mcanvas = <<>> /\ mstore = <<>> /\ mbody = <<>>
            /\ mres = <<>> /\ mptr = <<>>
TimerOff == tmeta = <<>> /\ tstep = <<>>
ParamOff == pcfg = <<>> /\ pbody = <<>>
WorldOff == hw = <<>> /\ hcfg = <<>>
LazyOff == lz = <<>> /\ lzlog = <<>>
LateOff == MouseOff /\ TimerOff /\ ParamOff /\ WorldOff /\ LazyOff
MoreOff == TwinOff /\ DrawOff /\ LoopOff /\ ScaleOff /\ GridOff /\ SteerOff
           /\ LateOff

\* createPhysicsLayer: let w = 0; let h = 0; let metas = []; let acc = 0
Init ==
    /\ variant \in Variants
    /\ w = 0
    /\ h = 0
    /\ count \in InitCounts
    /\ metas = <<>>
    /\ world = {}
    /\ gen = 0
    /\ made = 0
    /\ acc = 0
    /\ pc = "idle"
    /\ subSteps = 0
    /\ evs = <<>>
    /\ calls = <<>>
    /\ layout = <<>>
    /\ HashOff
    /\ SlotOff
    /\ MoreOff

Next ==
    \/ \E d \in Dims : Resize(d) /\ UNCHANGED notApi
    \/ \E n2 \in DensityInputs : SetDensity(n2) /\ UNCHANGED notApi
    \/ \E dt \in DtSet : StepBegin(dt) /\ UNCHANGED notApi
    \/ ApplyForces /\ UNCHANGED notApi
    \/ EngineUpdate /\ UNCHANGED notApi
    \/ Draw /\ UNCHANGED notApi

Spec == Init /\ [][Next]_vars

-----------------------------------------------------------------------------
(* Claims about the public API (Spec) *)

LastCall == calls[Len(calls)]
AfterCall(op) == calls # <<>> /\ LastCall.op = op
Draws == {i \in 1..Len(evs) : evs[i] = "draw"}
TwiceSameDensity ==
    /\ Len(calls) = 2
    /\ calls[1].op = "setDensity"
    /\ calls[2].op = "setDensity"
    /\ calls[1].c = calls[2].c

\* C2: whatever deltaSeconds and whatever debt earlier calls left, one step
\* call runs at most 15 sub-steps, that is at most 0.24 s of simulated time.
C2_FrameBudget == subSteps <= 15 /\ subSteps * Fixed <= AccCapCage

\* C2, its case: a step call with a 5 s stall has returned after 14 sub-steps.
C2_Stall ==
    /\ AfterCall("step")
    /\ LastCall.arg = 1500
    /\ pc = "idle"
    /\ subSteps = 14

\* C26: the time debt is never negative and never above 0.24 s; whenever
\* step has returned it is below one sub-step; resize and setDensity leave
\* it as it is.
C26_Accumulator ==
    /\ [](acc >= 0 /\ acc <= AccCapCage /\ (pc = "idle" => acc < Fixed))
    /\ [][(pc = "idle" /\ pc' = "idle") => acc' = acc]_vars

\* C26, its case: a step call with a 5 s stall has hit the cap and left a
\* remainder, and a resize has followed it.
C26_DebtKept ==
    /\ Len(calls) = 2
    /\ calls[1].op = "step" /\ calls[1].arg = 1500
    /\ calls[2].op = "resize"
    /\ acc = AccCapCage % Fixed
    /\ acc > 0

\* C5 as stated: setDensity(x) with x outside the range sets the count to the
\* nearest bound, and two consecutive setDensity calls with the same clamped
\* value trigger exactly one rebuild in total.
C5_Original ==
    /\ AfterCall("setDensity") =>
          /\ RoundHalf(LastCall.arg) < MinCount(variant)
                => count = MinCount(variant)
          /\ RoundHalf(LastCall.arg) > MaxCount(variant)
                => count = MaxCount(variant)
    /\ TwiceSameDensity => (calls[1].rebuilt # calls[2].rebuilt)

\* C5 as amended: setDensity(x) with x outside the range sets the count to the
\* nearest bound; of two consecutive setDensity calls with the same clamped
\* value the second never rebuilds, and the first rebuilds exactly when the
\* count before it differed from the clamped value.
C5_DensityClamp ==
    /\ AfterCall("setDensity") =>
          /\ count = LastCall.c
          /\ RoundHalf(LastCall.arg) < MinCount(variant)
                => count = MinCount(variant)
          /\ RoundHalf(LastCall.arg) > MaxCount(variant)
                => count = MaxCount(variant)
    /\ TwiceSameDensity =>
          /\ ~calls[2].rebuilt
          /\ calls[1].rebuilt <=> (calls[1].before # calls[1].c)

\* C5, its case: setDensity(1000) twice, the first call having rebuilt.
C5_Twice ==
    /\ TwiceSameDensity
    /\ calls[1].arg = 2000
    /\ calls[2].arg = 2000
    /\ calls[1].rebuilt
    /\ count = MaxCount(variant)

\* C6: after any setDensity call the number of live bodies equals the clamped
\* count, which is never zero and never above 240.
C6_Original ==
    AfterCall("setDensity") =>
        /\ Len(metas) = count
        /\ Cardinality(world) = count
        /\ count >= 1
        /\ count <= 240

\* C8: inside a step call force passes and advances alternate, starting with
\* a force pass: each advance directly follows the force pass of its
\* sub-step, and no two force passes and no two advances are adjacent.
C8_SubStepOrder ==
    /\ \A i \in 1..Len(evs) :
          /\ evs[i] = "force" =>
                /\ i % 2 = 1
                /\ i < Len(evs) => evs[i + 1] = "advance"
          /\ evs[i] = "advance" => (i % 2 = 0 /\ evs[i - 1] = "force")
    /\ pc = "forced" <=> (evs # <<>> /\ evs[Len(evs)] = "force")
    /\ Cardinality({i \in 1..Len(evs) : evs[i] = "advance"}) = subSteps

\* C8, its case: a step call is in its third sub-step.
C8_ThirdSubStep ==
    /\ Len(evs) >= 5
    /\ evs[5] = "force"
    /\ subSteps = 2

\* C9: a step call that has returned has drawn exactly once, after all of its
\* sub-steps, and a step call that has not returned has not drawn yet.
C9_RenderOnce ==
    /\ Cardinality(Draws) <= 1
    /\ Draws # {} => (Draws = {Len(evs)} /\ pc = "idle")
    /\ (pc = "idle" /\ AfterCall("step")) => Draws = {subSteps * 2 + 1}

\* C9, its case: a step call below one sub-step of debt has returned.
C9_NoSubStep ==
    /\ pc = "idle"
    /\ AfterCall("step")
    /\ subSteps = 0
    /\ evs = <<"draw">>

\* C10: the bodies in the world are exactly the bodies of the body list; a
\* replaced body has left the world, and the length of the body list changes
\* only on a full rebuild.
C10_NoLeak ==
    /\ [](world = Range(metas))
    /\ [][ /\ Len(metas') # Len(metas) => gen' = gen + 1
           /\ gen' = gen =>
                 \A i \in 1..Len(metas) :
                    metas'[i] # metas[i] => metas[i] \notin world' ]_vars

\* C10, its case: two bodies were replaced since the last full rebuild.
C10_Replaced ==
    /\ gen >= 1
    /\ made = count + 2
    /\ metas[1] # <<gen, 1>>
    /\ pc = "idle"

-----------------------------------------------------------------------------
(* The layout of a rebuild in the cage variant (SpecLayout).  Lengths are   *)
(* whole pixels: a coordinate the code computes is rounded down.  The       *)
(* Math.random() draws of one rebuild are one jitter pair, in tenths, used  *)
(* for every spawn point, and one rotation standing for the shuffle.        *)

\* spawnPadding: 28
spawnPadding == 28
\* clamp(s, 56, 150) in computeCageSize
MinCageSize == 56
MaxCageSize == 150
\* Math.max(10, ...) of cols and rows in spawnPoints
MinGrid == 10

\* arguments of resize(W, H, dpr) explored with the layout
LayoutDims == {<<20, 20>>, <<800, 600>>, <<1920, 1080>>}

\* Math.random() in the jitter of a spawn point, in tenths
JitterSet == {0, 9}

\* shuffleInPlace(pts) as a rotation of the list of points
ShuffleSet == {0, 7}

\* Math.round(Math.sqrt(num / den))
RoundSqrt(num, den) ==
    CHOOSE c \in 0..1000 :
        /\ (c = 0 \/ (2 * c - 1) * (2 * c - 1) * den <= 4 * num)
        /\ 4 * num < (2 * c + 1) * (2 * c + 1) * den

\* Math.round(a / b) for b > 0
RoundDiv(a, b) == (2 * a + b) \div (2 * b)

\* const W = Math.max(1, w - pad * 2), and H likewise
SpawnSpan(len) == Max(1, len - spawnPadding * 2)

\* const cols = Math.max(10, Math.round(Math.sqrt(count * aspect)))
Cols(cw, ch, n) ==
    Max(MinGrid, RoundSqrt(n * SpawnSpan(cw), Max(SpawnSpan(ch), 1)))

\* const rows = Math.max(10, Math.round(count / cols))
Rows(cw, ch, n) == Max(MinGrid, RoundDiv(n, Cols(cw, ch, n)))

\* pad + (i + 0.5) * dx + (Math.random() - 0.5) * dx * 0.70, clamped:
\* clamp(x, pad, w - pad), with dx = W / cols and the draw r10 / 10
SpawnCoord(i, r10, len, cells) ==
    Clamp(spawnPadding
            + ((100 * i + 15 + 7 * r10) * SpawnSpan(len)) \div (100 * cells),
          spawnPadding, len - spawnPadding)

\* the point pushed for cell c of a grid of cols columns and rows rows (rows
\* outside, columns inside)
CellPoint(cw, ch, cols, rows, c, jx, jy) ==
    [x |-> SpawnCoord(c % cols, jx, cw, cols),
     y |-> SpawnCoord(c \div cols, jy, ch, rows),
     cell |-> c]

\* spawnPoints(count), given its cols and rows: point k of the shuffled list
\* of points cut to count
SpawnPoint(cw, ch, cols, rows, k, jx, jy, rot) ==
    CellPoint(cw, ch, cols, rows, (k + rot) % (rows * cols), jx, jy)

\* pts.length: pts.slice(0, count) of rows * cols points
SpawnCount(n, cols, rows) == Min(n, rows * cols)

\* computeCageSize(count): clamp(Math.sqrt(w * h / Math.max(1, count)) * 0.92,
\* 56, 150); s <= 0.92 * sqrt(a / c) iff 625 * s * s * c <= 529 * a
ComputeCageSize(cw, ch, n) ==
    LET fits == {s \in MinCageSize..MaxCageSize :
                    s * s * Max(1, n) <= (529 * cw * ch) \div 625}
    IN  IF fits = {} THEN MinCageSize
        ELSE CHOOSE s \in fits : \A u \in fits : u <= s

\* the loop of rebuildAll for a grid of cols by rows points and cage size
\* size: body i takes p = pts[i % pts.length] as cage base and as position
CagesAt(cw, ch, n, cols, rows, size, jx, jy, rot) ==
    [k \in 1..n |->
        [cage |-> [baseX |-> SpawnPoint(cw, ch, cols, rows,
                                (k - 1) % SpawnCount(n, cols, rows),
                                jx, jy, rot).x,
                   baseY |-> SpawnPoint(cw, ch, cols, rows,
                                (k - 1) % SpawnCount(n, cols, rows),
                                jx, jy, rot).y,
                   size |-> size],
         cell |-> SpawnPoint(cw, ch, cols, rows,
                             (k - 1) % SpawnCount(n, cols, rows),
                             jx, jy, rot).cell,
         x |-> SpawnPoint(cw, ch, cols, rows,
                          (k - 1) % SpawnCount(n, cols, rows), jx, jy, rot).x,
         y |-> SpawnPoint(cw, ch, cols, rows,
                          (k - 1) % SpawnCount(n, cols, rows), jx, jy, rot).y]]

\* rebuildAll: const pts = spawnPoints(count); const cageSize =
\* computeCageSize(count); and the loop
RebuildLayout(cw, ch, n) ==
    \E jx \in JitterSet, jy \in JitterSet, rot \in ShuffleSet,
       cols \in {Cols(cw, ch, n)}, size \in {ComputeCageSize(cw, ch, n)} :
       \E rows \in {Rows(cw, ch, n)} :
          layout' = CagesAt(cw, ch, n, cols, rows, size, jx, jy, rot)

\* resize, with the layout of its rebuild
ResizeLayout(d) ==
    /\ Resize(d)
    /\ RebuildLayout(d[1], d[2], count)

\* setDensity, with the layout of its rebuild (if it rebuilds)
SetDensityLayout(n2) ==
    /\ SetDensity(n2)
    /\ IF ClampDensity(variant, n2) = count
       THEN layout' = layout
       ELSE RebuildLayout(w, h, ClampDensity(variant, n2))

InitLayout == Init /\ variant = "cage"

NextLayout ==
    \/ \E d \in LayoutDims :
          ResizeLayout(d) /\ UNCHANGED <<hashVars, slotVars, moreVars>>
    \/ \E n2 \in DensityInputs :
          SetDensityLayout(n2) /\ UNCHANGED <<hashVars, slotVars, moreVars>>

SpecLayout == InitLayout /\ [][NextLayout]_vars

\* C7: immediately after resize(W, H, dpr) every body lies within
\* [0, W] x [0, H], and every body and cage is the one laid out for W, H.
C7_Original ==
    AfterCall("resize") =>
        /\ Len(layout) = count
        /\ \A k \in 1..Len(layout) :
              /\ 0 <= layout[k].x /\ layout[k].x <= w
              /\ 0 <= layout[k].y /\ layout[k].y <= h
        /\ \E size \in {ComputeCageSize(w, h, count)} :
              \A k \in 1..Len(layout) : layout[k].cage.size = size

C16_Original ==
    [][(AfterCall("resize") /\ calls' = Note("resize", LastCall.arg, 0, TRUE))
          => (w' = w /\ h' = h /\ count' = count /\ layout' = layout)]_vars

-----------------------------------------------------------------------------
(* The neighbour search of the spatial-hash variant (SpecHash).  Positions  *)
(* are whole pixels.                                                        *)

\* cellSize: 110
cellSize == 110
\* repelRadius: 95
repelRadius == 95

\* bodies placed
NumHashBodies == 3

\* b.position of a body: coordinates on both sides of the cell seams
HashXs == {-10, 60, 100, 120, 221}
HashYs == {50, 112}

\* the radii queried: 95 is the code's repelRadius, 50 and 130 are the other
\* radii the specification tests
HashRadii == {50, repelRadius, 130}

\* Math.floor(b.position.x / cs)
CellOf(x, cs) == x \div cs

\* a mutation of CellOffsets: the cells before the body's own are left out
CellOffsetsForward == {0, 1}

\* for (let oy = -1; oy <= 1; oy++) for (let ox = -1; ox <= 1; ox++)
CellOffsets == {-1, 0, 1}

\* buildSpatialGrid(cs): the bodies of each cell
BuildSpatialGrid(bs, cs) ==
    [k \in {<<CellOf(bs[i][1], cs), CellOf(bs[i][2], cs)>> : i \in 1..Len(bs)}
        |-> {i \in 1..Len(bs) :
                <<CellOf(bs[i][1], cs), CellOf(bs[i][2], cs)>> = k}]

\* const d2 = dx * dx + dy * dy
Dist2(p, q) == (p[1] - q[1]) * (p[1] - q[1]) + (p[2] - q[2]) * (p[2] - q[2])

\* if (d2 > 0.0001 && d2 < r2), for whole coordinates
IsNear(p, q, r) == Dist2(p, q) > 0 /\ Dist2(p, q) < r * r

\* the loop of applyAntiClusterSpatialHash: the pairs <<b, o>> for which o is
\* found near b in the 3 x 3 block of cells around b
HashPairs(bs, cs, r) ==
    LET grid == BuildSpatialGrid(bs, cs)
    IN  {<<b, o>> \in (1..Len(bs)) \X (1..Len(bs)) :
            /\ o # b
            /\ \E ox \in CellOffsets, oy \in CellOffsets :
                  LET k == <<CellOf(bs[b][1], cs) + ox,
                             CellOf(bs[b][2], cs) + oy>>
                  IN  k \in DOMAIN grid /\ o \in grid[k]
            /\ IsNear(bs[b], bs[o], r)}

\* applyAntiClusterSpatialHash for the radius queried
AntiCluster ==
    /\ hnear' = [done |-> TRUE, pairs |-> HashPairs(hbodies, cellSize, hradius)]
    /\ UNCHANGED <<hbodies, hradius>>

\* Engine.update moves a body
HashMove ==
    /\ \E i \in 1..Len(hbodies), x \in HashXs, y \in HashYs :
          hbodies' = [hbodies EXCEPT ![i] = <<x, y>>]
    /\ hnear' = [done |-> FALSE, pairs |-> {}]
    /\ UNCHANGED hradius

ApiOff ==
    /\ variant = "hash" /\ w = 0 /\ h = 0 /\ count = 0 /\ metas = <<>>
    /\ world = {} /\ gen = 0 /\ made = 0 /\ acc = 0 /\ pc = "idle"
    /\ subSteps = 0 /\ evs = <<>> /\ calls = <<>>

InitHash ==
    /\ hbodies \in [1..NumHashBodies -> HashXs \X HashYs]
    /\ hradius \in HashRadii
    /\ hnear = [done |-> FALSE, pairs |-> {}]
    /\ ApiOff /\ layout = <<>> /\ SlotOff /\ MoreOff

NextHash ==
    \/ AntiCluster /\ UNCHANGED <<apiVars, layout, slotVars, moreVars>>
    \/ HashMove /\ UNCHANGED <<apiVars, layout, slotVars, moreVars>>

SpecHash == InitHash /\ [][NextHash]_vars

\* the pairs a pairwise check of all bodies finds at radius r
BrutePairs(bs, r) ==
    {<<b, o>> \in (1..Len(bs)) \X (1..Len(bs)) :
        o # b /\ IsNear(bs[b], bs[o], r)}

\* C4 as stated: for each radius 50, 95, 130 the pairs the 3 x 3 query finds
\* are the pairs a pairwise distance check finds.
C4_Original == hnear.done => hnear.pairs = BrutePairs(hbodies, hradius)

\* C4 as amended: the two sets are equal for a radius of at most cellSize
\* (50, 95); for any radius the query finds only pairs the pairwise check
\* finds, and exactly those whose cells are adjacent.
C4_HashCorrect ==
    hnear.done =>
        /\ hradius <= cellSize => hnear.pairs = BrutePairs(hbodies, hradius)
        /\ hnear.pairs \subseteq BrutePairs(hbodies, hradius)
        /\ \A pr \in BrutePairs(hbodies, hradius) :
              pr \in hnear.pairs <=>
                 /\ CellOf(hbodies[pr[1]][1], cellSize)
                      - CellOf(hbodies[pr[2]][1], cellSize) \in {-1, 0, 1}
                 /\ CellOf(hbodies[pr[1]][2], cellSize)
                      - CellOf(hbodies[pr[2]][2], cellSize) \in {-1, 0, 1}

\* C4, its case: at radius 95 a pair is found across a cell seam, from the
\* body in the higher cell.
C4_AcrossSeam ==
    /\ hnear.done
    /\ hradius = repelRadius
    /\ \E pr \in hnear.pairs :
          CellOf(hbodies[pr[1]][1], cellSize)
             > CellOf(hbodies[pr[2]][1], cellSize)

-----------------------------------------------------------------------------
(* One body slot of the cage variant (SpecSlot).  Positions are whole       *)
(* pixels, velocities whole pixels per sub-step, angles whole turns of a    *)
(* fixed step.  A force is counted in units of V.wallK, so that the spring  *)
(* of softWalls is the distance behind the wall in pixels.  frictionAir     *)
(* (at most 3% of the velocity per sub-step) is below this resolution.      *)

\* cagePadding: 10
cagePadding == 10
\* wallDamp / wallK = 0.000010 / 0.000030 = 1 / 3
WallDampDiv == 3

\* mass of the body over wallK and the squared sub-step: the force that
\* changes the velocity by one pixel per sub-step
MassDiv == 8
\* the velocities, spins and angles followed; the angle wraps around
SpeedSet == -1..1
SpinSet == -1..1
AngleSet == 0..1
\* sub-steps followed per call of step (the cap on acc allows 14)
MaxSlotSub == 2

\* resize(200, 200, 1) with the default count of the cage variant
SlotCanvas == <<200, 200>>
SlotCount == 60
\* the body of the list followed, and the randomness of its spawn point
SlotIndex == 45
SlotJitter == 5
\* makeBodyAt: the draws <<vx, vy, spin>> of (Math.random() - 0.5) * 1.8 per
\* axis and (Math.random() - 0.5) * 0.18 of spin
SpawnDraws == {<<-1, 0, 1>>, <<0, 0, 0>>, <<1, 0, -1>>}
\* morph: nothing to rebuild (<<>>), or the draws of the new body
MorphDraws == {<<>>} \cup SpawnDraws
\* ox, oy of cageCenter at the t of a call of step: within size * cageWobble
\* = 11.2 of the base
WobbleSet == {<<-6, 0>>, <<6, 0>>, <<0, 6>>}
\* the sum of the curl, jitter, magnet, mouse and impulse forces of one
\* pass: the forces followed act along x
KickSet == {-MassDiv, 0, MassDiv}
KickYSet == {0}
\* (Math.random() - 0.5) * 0.25 added to the spin by an impulse; 0: no impulse
ImpulseSet == {-1, 0, 1}

\* a quotient rounded towards zero
Trunc(a, b) == IF a >= 0 THEN a \div b ELSE -((-a) \div b)

\* cageCenter(c, t) for the offset o = <<ox, oy>> of t
CageCenter(c, o) ==
    [x |-> Clamp(c.baseX + o[1], c.size \div 2, SlotCanvas[1] - c.size \div 2),
     y |-> Clamp(c.baseY + o[2], c.size \div 2, SlotCanvas[2] - c.size \div 2)]

\* Body.applyForce(b, b.position, {x: fx, y: fy})
ApplyForce(b, fx, fy) == [b EXCEPT !.fx = @ + fx, !.fy = @ + fy]

\* Body.setPosition(b, {x, y})
SetPosition(b, x, y) == [b EXCEPT !.x = x, !.y = y]

\* a mutation of SetVelocity: the velocity is left as it is
SetVelocityNot(b, vx, vy) == b

\* Body.setVelocity(b, {x: vx, y: vy})
SetVelocity(b, vx, vy) == [b EXCEPT !.vx = vx, !.vy = vy]

\* Body.setAngularVelocity(b, av)
SetAngularVelocity(b, av) == [b EXCEPT !.av = av]

\* Body.setAngle(b, ang)
SetAngle(b, ang) == [b EXCEPT !.ang = ang]

\* const half = size * 0.5 - V.cagePadding
Half(size) == size \div 2 - cagePadding

\* a mutation of ExtremelyOut: the hard clamp never fires
ExtremelyOutNever(b, cx, cy, size) == FALSE

\* the condition of the hard clamp of softWalls
ExtremelyOut(b, cx, cy, size) ==
    \/ b.x < cx - Half(size) - Half(size)
    \/ b.x > cx + Half(size) + Half(size)
    \/ b.y < cy - Half(size) - Half(size)
    \/ b.y > cy + Half(size) + Half(size)

\* softWalls(b, cx, cy, size)
SoftWalls(b, cx, cy, size) ==
    LET half == Half(size)
        left == cx - half
        right == cx + half
        top == cy - half
        bottom == cy + half
        sx == (IF b.x < left THEN left - b.x ELSE 0)
              - (IF b.x > right THEN b.x - right ELSE 0)
        sy == (IF b.y < top THEN top - b.y ELSE 0)
              - (IF b.y > bottom THEN b.y - bottom ELSE 0)
        dx == Max(0, Max(left - b.x, b.x - right))
        dy == Max(0, Max(top - b.y, b.y - bottom))
        fx == IF dx > 0 \/ dy > 0 THEN sx - Trunc(b.vx, WallDampDiv) ELSE sx
        fy == IF dx > 0 \/ dy > 0 THEN sy - Trunc(b.vy, WallDampDiv) ELSE sy
        pushed == IF fx # 0 \/ fy # 0 THEN ApplyForce(b, fx, fy) ELSE b
    IN  IF ExtremelyOut(b, cx, cy, size)
        THEN SetVelocity(SetPosition(pushed, Clamp(b.x, left, right),
                                     Clamp(b.y, top, bottom)),
                         Trunc(3 * b.vx, 10), Trunc(3 * b.vy, 10))
        ELSE pushed

\* makeBodyAt(i, x, y, size): a new body at rest of forces, with a random
\* velocity and spin r = <<vx, vy, spin>>
MakeBodyAt(x, y, r) ==
    SetVelocity(SetAngularVelocity(
        [x |-> x, y |-> y, vx |-> 0, vy |-> 0, ang |-> 0, av |-> 0,
         fx |-> 0, fy |-> 0], r[3]), r[1], r[2])

\* position, velocity, angle and angular velocity of a body
Kin(b) == <<b.x, b.y, b.vx, b.vy, b.ang, b.av>>

\* morph, its rebuild path: a new body at the old position takes over angle,
\* velocity and angular velocity, then softWalls(newBody, center)
MorphRebuild(b, c, o, r) ==
    LET fresh == MakeBodyAt(b.x, b.y, r)
        newBody == SetAngularVelocity(
                       SetVelocity(SetAngle(fresh, b.ang), b.vx, b.vy), b.av)
    IN  SoftWalls(newBody, CageCenter(c, o).x, CageCenter(c, o).y, c.size)

\* rebuildAll for the slot: its cage, and its body at the base of the cage
SlotRebuild ==
    /\ bpc \in {"off", "built", "returned"}
    /\ \E cols \in {Cols(SlotCanvas[1], SlotCanvas[2], SlotCount)},
          size \in {ComputeCageSize(SlotCanvas[1], SlotCanvas[2], SlotCount)},
          r \in SpawnDraws :
          \E p \in {SpawnPoint(SlotCanvas[1], SlotCanvas[2], cols,
                               Rows(SlotCanvas[1], SlotCanvas[2], SlotCount),
                               SlotIndex, SlotJitter, SlotJitter, 0)} :
             /\ cage' = [baseX |-> p.x, baseY |-> p.y, size |-> size]
             /\ body' = MakeBodyAt(p.x, p.y, r)
    /\ bpc' = "built"
    /\ repl' = <<>>
    /\ UNCHANGED <<wob, sub>>

\* step(t, dt) up to its loop: t fixes the offset of the cage centre
SlotStepBegin(o) ==
    /\ bpc \in {"built", "returned"}
    /\ wob' = o
    /\ bpc' = "loop"
    /\ sub' = 0
    /\ repl' = <<>>
    /\ UNCHANGED <<cage, body>>

\* applyForces(t) for one meta, up to morph: softWalls, the other forces, an
\* impulse (imp not 0)
Forced(b, c, o, kx, ky, imp) ==
    LET cc == CageCenter(c, o)
        walled == SoftWalls(b, cc.x, cc.y, c.size)
        kicked == ApplyForce(walled, kx, ky)
    IN  IF imp = 0 THEN kicked
        ELSE SetAngularVelocity(kicked, kicked.av + imp)

\* Engine.update(engine, fixed * 1000) for one body
Advance(b) ==
    [b EXCEPT !.vx = @ + Trunc(b.fx, MassDiv),
              !.vy = @ + Trunc(b.fy, MassDiv),
              !.x = @ + b.vx + Trunc(b.fx, MassDiv),
              !.y = @ + b.vy + Trunc(b.fy, MassDiv),
              !.ang = (@ + b.av) % Cardinality(AngleSet),
              !.fx = 0, !.fy = 0]

\* applyForces(t) for the slot: softWalls, the other forces, an impulse (imp
\* not 0), morph (its rebuild path with the draws m, if m is not <<>>)
SlotApplyForces(kx, ky, imp, m) ==
    /\ bpc = "loop"
    /\ sub < MaxSlotSub
    /\ LET spun == Forced(body, cage, wob, kx, ky, imp)
       IN  /\ spun.av \in SpinSet
           /\ IF m # <<>>
              THEN /\ body' = MorphRebuild(spun, cage, wob, m)
                   /\ repl' = [old |-> spun,
                               new |-> MorphRebuild(spun, cage, wob, m)]
              ELSE /\ body' = spun
                   /\ repl' = <<>>
    /\ bpc' = "forced"
    /\ UNCHANGED <<cage, wob, sub>>

\* Engine.update(engine, fixed * 1000) for the slot
SlotEngineUpdate ==
    /\ bpc = "forced"
    /\ Advance(body).vx \in SpeedSet
    /\ Advance(body).vy \in SpeedSet
    /\ body' = Advance(body)
    /\ bpc' = "loop"
    /\ sub' = sub + 1
    /\ repl' = <<>>
    /\ UNCHANGED <<cage, wob>>

\* step: the loop ends, draw(t), return
SlotDraw ==
    /\ bpc = "loop"
    /\ bpc' = "returned"
    /\ UNCHANGED <<cage, body, wob, sub, repl>>

InitSlot ==
    /\ Init
    /\ variant = "cage"

NextSlot ==
    \/ SlotRebuild /\ UNCHANGED <<apiVars, layout, hashVars, moreVars>>
    \/ \E o \in WobbleSet :
          SlotStepBegin(o) /\ UNCHANGED <<apiVars, layout, hashVars, moreVars>>
    \/ \E kx \in KickSet, ky \in KickYSet, imp \in ImpulseSet,
          m \in MorphDraws :
          SlotApplyForces(kx, ky, imp, m)
             /\ UNCHANGED <<apiVars, layout, hashVars, moreVars>>
    \/ SlotEngineUpdate /\ UNCHANGED <<apiVars, layout, hashVars, moreVars>>
    \/ SlotDraw /\ UNCHANGED <<apiVars, layout, hashVars, moreVars>>

SpecSlot == InitSlot /\ [][NextSlot]_vars

\* tolerance of the containment bound, in pixels
ContainTol == 1

\* C1: after every step the body is within size / 2 + tolerance of the
\* centre of its cage, on both axes.
C1_Original ==
    bpc = "returned" =>
        /\ body.x - CageCenter(cage, wob).x
              \in -(cage.size \div 2 + ContainTol)..(cage.size \div 2 + ContainTol)
        /\ body.y - CageCenter(cage, wob).y
              \in -(cage.size \div 2 + ContainTol)..(cage.size \div 2 + ContainTol)

\* C3: the body the rebuild path of morph puts in place has the position,
\* velocity, angle and angular velocity of the body it replaces, also after
\* the softWalls call that ends morph.
C3_MorphMomentum ==
    repl # <<>> => Kin(repl.new) = Kin(repl.old) /\ Kin(body) = Kin(repl.old)

\* C3, its case: a moving, spinning body behind the soft wall is replaced,
\* and softWalls pushes the new body.
C3_ReplacedAtWall ==
    /\ repl # <<>>
    /\ repl.old.x > CageCenter(cage, wob).x + Half(cage.size)
    /\ repl.old.vx # 0 /\ repl.old.av # 0 /\ repl.old.ang # 0
    /\ repl.new.fx # repl.old.fx

\* the padded box of the cage around the centre cageCenter gives for the t
\* of the current call of step
BoxLeft == CageCenter(cage, wob).x - Half(cage.size)
BoxRight == CageCenter(cage, wob).x + Half(cage.size)
BoxTop == CageCenter(cage, wob).y - Half(cage.size)
BoxBottom == CageCenter(cage, wob).y + Half(cage.size)

\* C21: a body that is more than one padded half-extent beyond the padded
\* box when a force pass begins is snapped to the nearest point of the box
\* and keeps 0.3 times its velocity; after the force pass the body is never
\* farther than 2 * (size / 2 - cagePadding) from the cage centre, on
\* either axis.
C21_HardClamp ==
    /\ [](bpc = "forced" =>
            /\ body.x - CageCenter(cage, wob).x
                  \in -(2 * Half(cage.size))..(2 * Half(cage.size))
            /\ body.y - CageCenter(cage, wob).y
                  \in -(2 * Half(cage.size))..(2 * Half(cage.size)))
    /\ [][(/\ bpc = "loop" /\ bpc' = "forced"
           /\ \/ body.x < BoxLeft - Half(cage.size)
              \/ body.x > BoxRight + Half(cage.size)
              \/ body.y < BoxTop - Half(cage.size)
              \/ body.y > BoxBottom + Half(cage.size))
          => /\ body'.x = Clamp(body.x, BoxLeft, BoxRight)
             /\ body'.y = Clamp(body.y, BoxTop, BoxBottom)
             /\ body'.vx = Trunc(3 * body.vx, 10)
             /\ body'.vy = Trunc(3 * body.vy, 10)]_vars

\* C21, its case: after a force pass the body is on the left side of the box
\* and carries the spring force of a position more than a half-extent
\* behind that side: the pass has snapped it.
C21_Snapped ==
    /\ bpc = "forced"
    /\ body.x = BoxLeft
    /\ body.fx > Half(cage.size)

\* C22: a force pass in which neither the hard clamp nor a morph rebuild
\* fires leaves the position, velocity, angle and angular velocity of the
\* body as they were.
C22_Original ==
    [][(/\ bpc = "loop" /\ bpc' = "forced"
        /\ repl' = <<>>
        /\ body.x >= BoxLeft - Half(cage.size)
        /\ body.x <= BoxRight + Half(cage.size)
        /\ body.y >= BoxTop - Half(cage.size)
        /\ body.y <= BoxBottom + Half(cage.size))
       => Kin(body') = Kin(body)]_vars

-----------------------------------------------------------------------------
(* Two runs of the cage variant side by side (SpecTwin).  A run is the      *)
(* state of one createPhysicsLayer as a record: the canvas size, cfg.count, *)
(* acc, one body slot with its cage, the render parameters mood, mode and   *)
(* material, and what draw last painted.  Both runs receive every resize,   *)
(* setDensity and step call with the same arguments and the same random     *)
(* draws; the calls of setMood, setMode and setMaterial go to run A alone.  *)
(* A name is a sequence of characters, a number a record that may be NaN,   *)
(* with its value in hundredths.                                            *)

\* calls followed in one behaviour
MaxTwinCalls == 4

LowerCase == <<"a", "b", "c", "d", "e", "f", "g", "h", "i", "j", "k", "l", "m",
               "n", "o", "p", "q", "r", "s", "t", "u", "v", "w", "x", "y", "z">>
UpperCase == <<"A", "B", "C", "D", "E", "F", "G", "H", "I", "J", "K", "L", "M",
               "N", "O", "P", "Q", "R", "S", "T", "U", "V", "W", "X", "Y", "Z">>

\* String.prototype.toUpperCase on one character
ToUpperChar(c) ==
    IF \E k \in 1..Len(LowerCase) : LowerCase[k] = c
    THEN UpperCase[CHOOSE k \in 1..Len(LowerCase) : LowerCase[k] = c]
    ELSE c

\* a mutation of ToUpperCase: the name is compared as it is written
ToUpperCaseNot(name) == name

\* name.toUpperCase()
ToUpperCase(name) == [i \in 1..Len(name) |-> ToUpperChar(name[i])]

\* type ModeName = "ICE" | "NEON" | "VIOLET" | "MONO"
ModeNames == {<<"I", "C", "E">>, <<"N", "E", "O", "N">>,
              <<"V", "I", "O", "L", "E", "T">>, <<"M", "O", "N", "O">>}
\* type MaterialName = "GLASS" | "CERAMIC" | "METAL"
MaterialNames == {<<"G", "L", "A", "S", "S">>,
                  <<"C", "E", "R", "A", "M", "I", "C">>,
                  <<"M", "E", "T", "A", "L">>}

\* arguments of setMode and setMaterial
NameInputs == {<<"i", "c", "e">>, <<"N", "e", "O", "n">>,
               <<"V", "I", "O", "L", "E", "T">>, <<"m", "o", "n", "o">>,
               <<"g", "l", "a", "s", "s">>,
               <<"C", "e", "r", "a", "m", "i", "c">>,
               <<"M", "E", "T", "A", "L">>,
               <<>>, <<"i", "c", "e", " ">>, <<"p", "l", "a", "i", "d">>}

\* a number that is not NaN, and NaN
Num(v) == [nan |-> FALSE, v |-> v]
NaN == [nan |-> TRUE, v |-> 0]

\* arguments of setMood, in hundredths
MoodInputs == {Num(-50), Num(33), Num(100), Num(250), NaN}

\* Math.min(b, v) and Math.max(a, v): NaN if v is NaN
MathMin(b, v) == IF v.nan THEN NaN ELSE Num(Min(b, v.v))
MathMax(a, v) == IF v.nan THEN NaN ELSE Num(Max(a, v.v))

\* clamp(v, a, b) = Math.max(a, Math.min(b, v)) on a number that may be NaN
ClampNum(v, a, b) == MathMax(a, MathMin(b, v))

\* arguments and draws of the calls both runs receive
TwinDims == {SlotCanvas}
TwinDensities == {119, 300}
TwinDts == {5, 15}
TwinWobbles == {<<6, 0>>}
TwinKicks == {0, MassDiv}
TwinImpulses == {0, 1}
TwinMorphs == {<<>>, <<1, 0, -1>>}
TwinSpawns == {<<1, 0, -1>>, <<0, 0, 0>>}

\* palette(mood, mode)
Palette(mood, mode) ==
    IF mode = <<"M", "O", "N", "O">> THEN <<235, 240, 255>>
    ELSE IF ~mood.nan /\ mood.v < 33 THEN <<190, 225, 255>>
    ELSE IF ~mood.nan /\ mood.v < 66 THEN <<175, 255, 235>>
    ELSE <<215, 190, 255>>

\* createPhysicsLayer: the initial state of a run
NewRun(c) ==
    [w |-> 0, h |-> 0, count |-> c, acc |-> 0, cage |-> <<>>, body |-> <<>>,
     mood |-> Num(0), mode |-> <<"I", "C", "E">>,
     material |-> <<"G", "L", "A", "S", "S">>, drawn |-> <<>>]

\* rebuildAll for the slot of a run, with the draws of makeBodyAt
RunRebuild(r, draw) ==
    LET p == SpawnPoint(r.w, r.h, Cols(r.w, r.h, r.count),
                        Rows(r.w, r.h, r.count), SlotIndex,
                        SlotJitter, SlotJitter, 0)
    IN  [r EXCEPT !.cage = [baseX |-> p.x, baseY |-> p.y,
                            size |-> ComputeCageSize(r.w, r.h, r.count)],
                  !.body = MakeBodyAt(p.x, p.y, draw)]

\* resize
RunResize(r, d, draw) == RunRebuild([r EXCEPT !.w = d[1], !.h = d[2]], draw)

\* setDensity
RunSetDensity(r, n2, draw) ==
    IF ClampDensity("cage", n2) = r.count THEN r
    ELSE RunRebuild([r EXCEPT !.count = ClampDensity("cage", n2)], draw)

\* applyForces(t) for the slot of a run: the forces, then morph
RunForces(r, o, kx, imp, m) ==
    IF r.body = <<>> THEN r
    ELSE IF m = <<>>
         THEN [r EXCEPT !.body = Forced(r.body, r.cage, o, kx, 0, imp)]
         ELSE [r EXCEPT !.body = MorphRebuild(
                   Forced(r.body, r.cage, o, kx, 0, imp), r.cage, o, m)]

\* Engine.update for the slot of a run; acc -= fixed
RunAdvance(r) ==
    [r EXCEPT !.body = IF @ = <<>> THEN @ ELSE Advance(@), !.acc = @ - Fixed]

\* a mutation of RunLoop: one sub-step at most, and none in mode MONO
RunLoopMono(r, o, kx, imp, m) ==
    IF r.mode = <<"M", "O", "N", "O">> \/ r.acc < Fixed THEN r
    ELSE RunAdvance(RunForces(r, o, kx, imp, m))

\* while (acc >= fixed) { applyForces(t); Engine.update(...); acc -= fixed; }
RECURSIVE RunLoop(_, _, _, _, _)
RunLoop(r, o, kx, imp, m) ==
    IF r.acc < Fixed THEN r
    ELSE RunLoop(RunAdvance(RunForces(r, o, kx, imp, m)), o, kx, imp, m)

\* draw(t): what the palette and the material give
RunDraw(r) == [r EXCEPT !.drawn = <<Palette(r.mood, r.mode), r.material>>]

\* step
RunStep(r, dt, o, kx, imp, m) ==
    RunDraw(RunLoop([r EXCEPT !.acc = CapAcc("cage", @ + dt)], o, kx, imp, m))

\* setMood: mood = clamp(m, 0, 1)
RunSetMood(r, v) == [r EXCEPT !.mood = ClampNum(v, 0, 100)]

\* setMode
RunSetMode(r, name) ==
    IF ToUpperCase(name) \in ModeNames
    THEN [r EXCEPT !.mode = ToUpperCase(name)]
    ELSE r

\* setMaterial
RunSetMaterial(r, name) ==
    IF ToUpperCase(name) \in MaterialNames
    THEN [r EXCEPT !.material = ToUpperCase(name)]
    ELSE r

\* one call of the API
TwinCall(op, arg, a, b) ==
    /\ tcalls < MaxTwinCalls
    /\ tcalls' = tcalls + 1
    /\ tlast' = [op |-> op, arg |-> arg]
    /\ runA' = a
    /\ runB' = b

TwinResize(d, draw) ==
    TwinCall("resize", d, RunResize(runA, d, draw), RunResize(runB, d, draw))

TwinSetDensity(n2, draw) ==
    TwinCall("setDensity", n2, RunSetDensity(runA, n2, draw),
             RunSetDensity(runB, n2, draw))

TwinStep(dt, o, kx, imp, m) ==
    TwinCall("step", dt, RunStep(runA, dt, o, kx, imp, m),
             RunStep(runB, dt, o, kx, imp, m))

TwinSetMood(v) == TwinCall("setMood", v, RunSetMood(runA, v), runB)

TwinSetMode(name) == TwinCall("setMode", name, RunSetMode(runA, name), runB)

TwinSetMaterial(name) ==
    TwinCall("setMaterial", name, RunSetMaterial(runA, name), runB)

InitTwin ==
    /\ runA = NewRun(SlotCount)
    /\ runB = NewRun(SlotCount)
    /\ tlast = [op |-> "none", arg |-> <<>>]
    /\ tcalls = 0
    /\ ApiOff /\ layout = <<>> /\ HashOff /\ SlotOff
    /\ DrawOff /\ LoopOff /\ ScaleOff /\ GridOff /\ SteerOff /\ LateOff

NextTwin ==
    \/ \E d \in TwinDims, draw \in TwinSpawns :
          TwinResize(d, draw) /\ UNCHANGED notTwin
    \/ \E n2 \in TwinDensities, draw \in TwinSpawns :
          TwinSetDensity(n2, draw) /\ UNCHANGED notTwin
    \/ \E dt \in TwinDts, o \in TwinWobbles, kx \in TwinKicks,
          imp \in TwinImpulses, m \in TwinMorphs :
          TwinStep(dt, o, kx, imp, m) /\ UNCHANGED notTwin
    \/ \E v \in MoodInputs : TwinSetMood(v) /\ UNCHANGED notTwin
    \/ \E name \in NameInputs : TwinSetMode(name) /\ UNCHANGED notTwin
    \/ \E name \in NameInputs : TwinSetMaterial(name) /\ UNCHANGED notTwin

SpecTwin == InitTwin /\ [][NextTwin]_vars

-----------------------------------------------------------------------------
(* Claims about the render parameters (SpecTwin) *)

\* c and d are the same letter, in either case
SameLetter(c, d) ==
    \/ c = d
    \/ \E k \in 1..Len(LowerCase) : {c, d} = {LowerCase[k], UpperCase[k]}

\* two names that differ at most in the case of their letters
SameIgnoringCase(a, b) ==
    /\ Len(a) = Len(b)
    /\ \A i \in 1..Len(a) : SameLetter(a[i], b[i])

\* the name of Names that name writes, in whatever case; <<>> if none
Recognized(name, Names) ==
    IF \E n \in Names : SameIgnoringCase(name, n)
    THEN CHOOSE n \in Names : SameIgnoringCase(name, n)
    ELSE <<>>

\* the physics of a run: everything but the render parameters
Physics(r) ==
    [w |-> r.w, h |-> r.h, count |-> r.count, acc |-> r.acc,
     cage |-> r.cage, body |-> r.body]

\* C12: mode is always one of ICE, NEON, VIOLET, MONO and material one of
\* GLASS, CERAMIC, METAL; setMode and setMaterial store the name their
\* argument writes in whatever case, and with an unrecognized argument they
\* leave the stored value as it was; nothing else of the run changes.
C12_Setters ==
    /\ [](runA.mode \in ModeNames /\ runA.material \in MaterialNames)
    /\ [][ /\ tlast'.op = "setMode" =>
                /\ runA'.mode = IF Recognized(tlast'.arg, ModeNames) = <<>>
                                THEN runA.mode
                                ELSE Recognized(tlast'.arg, ModeNames)
                /\ [runA' EXCEPT !.mode = runA.mode] = runA
           /\ tlast'.op = "setMaterial" =>
                /\ runA'.material =
                      IF Recognized(tlast'.arg, MaterialNames) = <<>>
                      THEN runA.material
                      ELSE Recognized(tlast'.arg, MaterialNames)
                /\ [runA' EXCEPT !.material = runA.material] = runA ]_vars

\* C12, its case: setMode("mono") has stored MONO after setMaterial("Ceramic")
\* stored CERAMIC, and an unrecognized name has left both as they were.
C12_MixedCase ==
    /\ tlast.op = "setMaterial"
    /\ tlast.arg = <<"p", "l", "a", "i", "d">>
    /\ runA.mode = <<"M", "O", "N", "O">>
    /\ runA.material = <<"C", "E", "R", "A", "M", "I", "C">>

\* C13: the two runs, which differ only in mood, mode and material, have the
\* same physics after every call, and a call of setMood, setMode or
\* setMaterial changes nothing of the physics of its run.
C13_NoInfluence ==
    /\ [](Physics(runA) = Physics(runB))
    /\ [][ tlast'.op \in {"setMood", "setMode", "setMaterial"} =>
              Physics(runA') = Physics(runA) ]_vars

\* C13, its case: the runs differ in mood, mode and material, have painted
\* differently, and their body has moved in a step call.
C13_DifferentLook ==
    /\ tlast.op = "step"
    /\ runA.mood # runB.mood
    /\ runA.mode # runB.mode
    /\ runA.drawn # runB.drawn
    /\ runA.body # <<>>
    /\ runA.body.x # runA.cage.baseX

\* C17: the stored mood lies in [0, 1] after any sequence of calls, and
\* setMood(v) stores v clamped to [0, 1].
C17_Original ==
    /\ ~runA.mood.nan
    /\ runA.mood.v \in 0..100
    /\ (tlast.op = "setMood" /\ ~tlast.arg.nan) =>
          runA.mood.v = Clamp(tlast.arg.v, 0, 100)

-----------------------------------------------------------------------------
(* The renderer of the cage variant (SpecDraw).  A body is the length of    *)
(* its vertex list; the factory builds bodies of three vertices or more,    *)
(* and a caller that reaches a body directly may leave it any list.  The    *)
(* steering variant's draw reads verts[0] in the same way.                  *)

\* the bodies of the list
DrawBodies == 1..3

\* lengths of body.vertices the factory produces: polygon of 3 sides, circle
FactoryVerts == {3, 8}

\* lengths a caller can leave: the empty list, a single point
DegenerateVerts == {0, 1}

\* the shadow pass and the glow pass: position and bounds of each body, no
\* vertex is read
BoundsPass(vs) == [i \in 1..Len(vs) |-> "arc"]

\* verts[0].x with verts = []: reading x of undefined, a TypeError
ReadsUndefined(n) == n = 0

\* the path of one body in the main pass: moveTo(verts[0]), lineTo for the
\* rest; the number of points of the path
BodyPath(n) == n

\* the main pass from body i on: g.save(), the path, fill, strokes,
\* g.restore(); an exception ends the pass, and draw, at once
RECURSIVE MainPass(_, _, _)
MainPass(vs, i, res) ==
    IF i > Len(vs) THEN res
    ELSE IF ReadsUndefined(vs[i])
         THEN [res EXCEPT !.threw = TRUE, !.saved = @ + 1]
         ELSE MainPass(vs, i + 1,
                       [res EXCEPT !.painted = @ \cup {i},
                                   !.points = Append(@, BodyPath(vs[i]))])

\* draw(t): clear, shadow pass, glow pass, main pass
DrawAll(vs) ==
    MainPass(vs, 1, [done |-> TRUE, saw |-> vs, threw |-> FALSE, saved |-> 0,
                     shadow |-> BoundsPass(vs), glow |-> BoundsPass(vs),
                     painted |-> {}, points |-> <<>>])

\* one call of draw
DrawCall ==
    /\ dres' = DrawAll(dverts)
    /\ UNCHANGED dverts

\* a body is rebuilt by the factory (morph, rebuildAll)
FactoryBody(i, n) ==
    /\ dverts' = [dverts EXCEPT ![i] = n]
    /\ UNCHANGED dres

\* a caller outside the factory replaces the vertex list of a body
SetVertices(i, n) ==
    /\ dverts' = [dverts EXCEPT ![i] = n]
    /\ UNCHANGED dres

InitDraw ==
    /\ dverts \in [DrawBodies -> FactoryVerts]
    /\ dres = [done |-> FALSE]
    /\ ApiOff /\ layout = <<>> /\ HashOff /\ SlotOff /\ TwinOff
    /\ LoopOff /\ ScaleOff /\ GridOff /\ SteerOff /\ LateOff

NextDraw ==
    \/ DrawCall /\ UNCHANGED notDraw
    \/ \E i \in DrawBodies, n \in FactoryVerts :
          FactoryBody(i, n) /\ UNCHANGED notDraw
    \/ \E i \in DrawBodies, n \in DegenerateVerts :
          SetVertices(i, n) /\ UNCHANGED notDraw

SpecDraw == InitDraw /\ [][NextDraw]_vars

\* C14: a draw call never throws, and it paints every body whose vertex
\* list is not empty, whether or not another body's list is empty.
C14_Original ==
    dres.done =>
        /\ ~dres.threw
        /\ dres.painted = {i \in DrawBodies : dres.saw[i] > 0}

-----------------------------------------------------------------------------
(* The frame loop of the orchestrator (SpecLoop, src/unnamed/part_002),     *)
(* once initPhysics has created the physics layer, on a page that is        *)
(* visible when its script starts and has no preference for reduced         *)
(* motion.  The browser may run a frame callback at any time, and delivers  *)
(* visibilitychange when document.hidden changes.                           *)

\* frames and visibility changes of a run
MaxLoopEvents == 5

\* Math.min(0.05, ...): 0.05 s in ticks
DtCap == 15

\* ticks between one event and the next: 1/60 s, a slow frame, 10 s
GapSet == {5, 16, 3000}

\* let physicsApi, after initPhysics
physicsApi == "set"

\* CONFIG.reducedMotion
reducedMotion == FALSE

\* a mutation of FrameDt: the elapsed time as it is
FrameDtRaw(n, l) == n - l

\* const dt = Math.min(0.05, (now - last) / 1000)
FrameDt(n, l) == Min(DtCap, n - l)

\* the body of if (running) { ... }: the calls it makes, in order
RunningFrame(t, dt) ==
    (IF reducedMotion THEN <<>> ELSE <<[op |-> "stepComponents", dt |-> dt]>>)
    \o <<[op |-> "render", dt |-> 0]>>
    \o (IF physicsApi # "null" /\ ~reducedMotion
        THEN <<[op |-> "setMood", dt |-> 0], [op |-> "setMode", dt |-> 0],
               [op |-> "step", dt |-> dt]>>
        ELSE <<>>)

\* loop(now), called by the browser gap ticks after the previous event
Frame(gap) ==
    /\ frame.raf
    /\ vis.events < MaxLoopEvents
    /\ now' = now + gap
    /\ last' = now'
    /\ frame' = [n |-> frame.n + 1,
                 hidden |-> hidden,
                 first |-> vis.back,
                 away |-> vis.gone,
                 skipped |-> vis.skipped,
                 calls |-> IF running
                           THEN RunningFrame(now', FrameDt(now', last))
                           ELSE <<>>,
                 raf |-> TRUE]
    /\ vis' = [vis EXCEPT !.back = FALSE,
                          !.skipped = IF hidden THEN @ + 1 ELSE @,
                          !.events = @ + 1]
    /\ UNCHANGED <<hidden, running>>

\* document.hidden changes gap ticks after the previous event, and the
\* listener runs: running = !document.hidden
VisibilityChange(gap) ==
    /\ vis.events < MaxLoopEvents
    /\ now' = now + gap
    /\ hidden' = ~hidden
    /\ running' = ~hidden'
    /\ vis' = IF hidden'
              THEN [since |-> now', back |-> FALSE, gone |-> 0, skipped |-> 0,
                    events |-> vis.events + 1]
              ELSE [vis EXCEPT !.back = TRUE, !.gone = now' - vis.since,
                               !.events = @ + 1]
    /\ UNCHANGED <<last, frame>>

\* let running = true; const start = performance.now(); let last = start;
\* requestAnimationFrame(loop)
InitLoop ==
    /\ hidden = FALSE
    /\ running = TRUE
    /\ now = 0
    /\ last = 0
    /\ frame = [n |-> 0, hidden |-> FALSE, first |-> FALSE, away |-> 0,
                skipped |-> 0, calls |-> <<>>, raf |-> TRUE]
    /\ vis = [since |-> 0, back |-> FALSE, gone |-> 0, skipped |-> 0,
              events |-> 0]
    /\ ApiOff /\ layout = <<>> /\ HashOff /\ SlotOff /\ TwinOff
    /\ DrawOff /\ ScaleOff /\ GridOff /\ SteerOff /\ LateOff

NextLoop ==
    \/ \E gap \in GapSet : Frame(gap) /\ UNCHANGED notLoop
    \/ \E gap \in GapSet : VisibilityChange(gap) /\ UNCHANGED notLoop

SpecLoop == InitLoop /\ [][NextLoop]_vars

\* the calls of the last frame to the operation op
FrameCalls(op) == {i \in 1..Len(frame.calls) : frame.calls[i].op = op}

-----------------------------------------------------------------------------
(* The size of one body slot of the cage variant through morph events       *)
(* (SpecScale).  meta.scale is counted in hundredths; the size of the live  *)
(* body relative to its size as makeBodyAt built it is a fraction           *)
(* <<numerator, denominator>> in lowest terms.                              *)

\* morph events of a run
MaxScaleEvents == 4

\* clamp(0.70 + Math.random() * 0.80, 0.60, 1.55), in hundredths: the least
\* value, the natural size and a value near the upper end
ScaleTargets == {70, 100, 149}

\* scale: 1.0 in rebuildAll
NaturalScale == 100

RECURSIVE Gcd(_, _)
Gcd(a, b) == IF b = 0 THEN a ELSE Gcd(b, a % b)

\* a fraction in lowest terms
Fraction(n, m) == <<n \div Gcd(n, m), m \div Gcd(n, m)>>

\* Body.scale(b, s, s) with s = num / den on a body of relative size f
BodyScale(f, num, den) == Fraction(f[1] * num, f[2] * den)

\* the scale path of morph: s = target / Math.max(0.001, meta.scale);
\* meta.scale = target; Body.scale(b, s, s)
MorphScale(target) ==
    /\ Len(mevs) < MaxScaleEvents
    /\ mactual' = BodyScale(mactual, target, mscale)
    /\ mscale' = target
    /\ mevs' = Append(mevs, "scale")

\* the rebuild path of morph: meta.body = makeBodyAt(...), a body of its
\* natural size; meta.scale is not assigned
MorphReplace ==
    /\ Len(mevs) < MaxScaleEvents
    /\ mactual' = Fraction(1, 1)
    /\ mevs' = Append(mevs, "replace")
    /\ UNCHANGED mscale

\* rebuildAll: a new body and a new meta with scale: 1.0
ScaleRebuildAll ==
    /\ Len(mevs) < MaxScaleEvents
    /\ mactual' = Fraction(1, 1)
    /\ mscale' = NaturalScale
    /\ mevs' = Append(mevs, "rebuildAll")

InitScale ==
    /\ mscale = NaturalScale
    /\ mactual = Fraction(1, 1)
    /\ mevs = <<>>
    /\ ApiOff /\ layout = <<>> /\ HashOff /\ SlotOff /\ TwinOff
    /\ DrawOff /\ LoopOff /\ GridOff /\ SteerOff /\ LateOff

NextScale ==
    \/ \E target \in ScaleTargets : MorphScale(target) /\ UNCHANGED notScale
    \/ MorphReplace /\ UNCHANGED notScale
    \/ ScaleRebuildAll /\ UNCHANGED notScale

SpecScale == InitScale /\ [][NextScale]_vars

\* C18: after any sequence of morph events the live body's size relative to
\* its size as constructed is within [0.60, 1.55] and meta.scale is that
\* factor.
C18_Original ==
    /\ 60 * mactual[2] <= 100 * mactual[1]
    /\ 100 * mactual[1] <= 155 * mactual[2]
    /\ mscale * mactual[2] = 100 * mactual[1]

-----------------------------------------------------------------------------
(* A full rebuild of the steering variant (SpecGrid, src/unnamed/part_003): *)
(* gridCages and the loop of rebuildAll, counted in cages and bodies.       *)

\* canvas sizes passed to resize
GridDims == {<<20, 20>>, <<600, 800>>, <<800, 600>>, <<1000, 1000>>,
             <<1280, 720>>, <<1920, 1080>>, <<2560, 1080>>}

\* arguments of setDensity, in halves
GridDensities == {0, 239, 320, 400, 441, 480, 2000}

\* cfg.count as configured
GridInitCounts == {60, 160}

\* the cell whose cage shuffleInPlace puts first
GridShuffles == {0, 7, 50}

\* V.spawnPadding of the steering variant
GridPad == 28

\* const W = Math.max(1, w - pad * 2)
GridSpan(len) == Max(1, len - GridPad * 2)

\* const cols = Math.max(10, Math.round(Math.sqrt(count * aspect)))
GridCols(d, n) ==
    Max(MinGrid, RoundSqrt(n * GridSpan(d[1]), Max(GridSpan(d[2]), 1)))

\* const rows = Math.max(10, Math.round(count / cols))
GridRows(d, n) == Max(MinGrid, RoundDiv(n, GridCols(d, n)))

\* gridCages: one cage per cell, shuffled, then cages.slice(0, count); the
\* number of cages returned
GridCages(d, n) == Min(n, GridRows(d, n) * GridCols(d, n))

\* randomTargetInside(c) with c = cages[i] undefined: reading c.size throws
TargetThrows(i, cages) == i >= cages

\* rebuildAll: Composite.clear(world, false); metas = []; for i < count the
\* cage cages[i], its target, a body and a meta; then Composite.add(world,
\* bodies).  The loop ends at the first i whose cage is undefined, with the
\* exception, before the bodies are added
GridRebuild(d, n, first) ==
    \E cages \in {GridCages(d, n)} :
       \E built \in {Cardinality({i \in 0..(n - 1) :
                                    ~TargetThrows(i, cages)})} :
          gres' = [done |-> TRUE,
                   cages |-> cages,
                   first |-> first % cages,
                   threw |-> built < n,
                   metas |-> built,
                   world |-> IF built < n THEN 0 ELSE n]

\* resize: w = W; h = H; ...; rebuildAll()
GridResize(d, first) ==
    /\ gdims' = d
    /\ GridRebuild(d, gcount, first)
    /\ UNCHANGED gcount

\* setDensity: const c = clamp(Math.round(count), 60, 240);
\* if (c === cfg.count) return; cfg.count = c; rebuildAll()
GridSetDensity(n2, first) ==
    \E c \in {ClampDensity("cage", n2)} :
       IF c = gcount
       THEN UNCHANGED <<gdims, gcount, gres>>
       ELSE /\ gcount' = c
            /\ GridRebuild(gdims, c, first)
            /\ UNCHANGED gdims

\* createPhysicsLayer: let w = 0; let h = 0; let metas = []
InitGrid ==
    /\ gdims = <<0, 0>>
    /\ gcount \in GridInitCounts
    /\ gres = [done |-> FALSE]
    /\ ApiOff /\ layout = <<>> /\ HashOff /\ SlotOff /\ TwinOff
    /\ DrawOff /\ LoopOff /\ ScaleOff /\ SteerOff /\ LateOff

NextGrid ==
    \/ \E d \in GridDims, first \in GridShuffles :
          GridResize(d, first) /\ UNCHANGED notGrid
    \/ \E n2 \in GridDensities, first \in GridShuffles :
          GridSetDensity(n2, first) /\ UNCHANGED notGrid

SpecGrid == InitGrid /\ [][NextGrid]_vars

\* C19: a full rebuild with a count in [60, 240] never fails, whatever the
\* canvas: gridCages returns at least count cages and rebuildAll completes
\* with exactly count bodies.
C19_Original ==
    (gres.done /\ MinCountCage <= gcount /\ gcount <= MaxCountCage) =>
        /\ gres.cages >= gcount
        /\ ~gres.threw
        /\ gres.metas = gcount
        /\ gres.world = gcount

-----------------------------------------------------------------------------
(* One body slot of the steering variant (SpecSteer, src/unnamed/part_003)  *)
(* through rebuilds and sub-steps of step.  Positions are whole pixels,     *)
(* velocities whole pixels per sub-step; a product with 0.35 is rounded     *)
(* towards zero.  The body and the Matter operations are those of the cage  *)
(* variant's slot.                                                          *)

\* sub-steps followed after a rebuild
MaxSteerSub == 8

\* V.cageSizeMin, the cage size on a canvas of 200 x 200 with 60 bodies
cageSizeMin == 58

\* the cage of cell (4, 4) of that canvas: sx = sy = 28 + 4.5 * 14.4
SteerCage == [cx |-> 92, cy |-> 92, size |-> cageSizeMin]

\* the draws of makeBodyAt: velocity and spin of the new body
SteerSpawns == {<<1, 0, 0>>, <<0, 0, 1>>, <<-1, 0, 0>>}

\* the morph of a sub-step: none, the scale path, or the rebuild path with
\* the draws of the new body
SteerMorphs == {<<"none">>, <<"scale">>, <<0, 0, 0>>, <<1, 0, -1>>}

\* the sum of the steering, curl, jitter, magnet and mouse forces of a pass
SteerKicks == {0, MassDiv}

\* const half = c.size * 0.5 - V.cagePadding
SteerHalf(c) == c.size \div 2 - cagePadding

\* a mutation of OutsideCage: no body is found outside
OutsideCageNever(b, c) == FALSE

\* x < left || x > right || y < top || y > bottom
OutsideCage(b, c) ==
    \/ b.x < c.cx - SteerHalf(c)
    \/ b.x > c.cx + SteerHalf(c)
    \/ b.y < c.cy - SteerHalf(c)
    \/ b.y > c.cy + SteerHalf(c)

\* a mutation of KeepInsideSteer: the body is left as it is
KeepInsideSteerNot(b, c) == b

\* keepInsideSteer(b, c)
KeepInsideSteer(b, c) ==
    IF OutsideCage(b, c)
    THEN SetVelocity(
             SetPosition(b, Clamp(b.x, c.cx - SteerHalf(c), c.cx + SteerHalf(c)),
                         Clamp(b.y, c.cy - SteerHalf(c), c.cy + SteerHalf(c))),
             Trunc(7 * b.vx, 20), Trunc(7 * b.vy, 20))
    ELSE b

\* morph, its rebuild path: a new body at the old position takes over angle,
\* velocity and angular velocity, then keepInsideSteer(nb, c)
SteerReplace(b, c, r) ==
    KeepInsideSteer(
        SetAngularVelocity(
            SetVelocity(SetAngle(MakeBodyAt(b.x, b.y, r), b.ang), b.vx, b.vy),
            b.av),
        c)

\* morph(meta, t): nothing, the scale path (no change of the motion), or
\* the rebuild path
SteerMorph(b, c, m) ==
    IF m \in {<<"none">>, <<"scale">>} THEN b ELSE SteerReplace(b, c, m)

\* applyForces(t) for one meta, up to morph: the forces and an impulse
SteerForced(b, kx, imp) ==
    IF imp = 0 THEN ApplyForce(b, kx, 0)
    ELSE SetAngularVelocity(ApplyForce(b, kx, 0), b.av + imp)

\* rebuildAll for the slot: the body at the centre of its cage
SteerRebuild(r) ==
    /\ scage' = SteerCage
    /\ sbody' = MakeBodyAt(SteerCage.cx, SteerCage.cy, r)
    /\ srepl' = [done |-> FALSE]
    /\ ssub' = 0
    /\ sforced' = <<>>

\* one turn of the loop of step for the slot: applyForces (the forces,
\* morph, keepInsideSteer) and Engine.update
SteerSubStep(kx, imp, m) ==
    /\ scage # <<>>
    /\ ssub < MaxSteerSub
    /\ ssub' = ssub + 1
    /\ \E old \in {SteerForced(sbody, kx, imp)} :
          \E nb \in {SteerMorph(old, scage, m)} :
             /\ sforced' = KeepInsideSteer(nb, scage)
             /\ sbody' = Advance(KeepInsideSteer(nb, scage))
             /\ srepl' = IF m \in {<<"none">>, <<"scale">>}
                         THEN [done |-> FALSE]
                         ELSE [done |-> TRUE, old |-> Kin(old),
                               new |-> Kin(nb),
                               outside |-> OutsideCage(old, scage)]
    /\ UNCHANGED scage

InitSteer ==
    /\ sbody = <<>>
    /\ sforced = <<>>
    /\ scage = <<>>
    /\ srepl = [done |-> FALSE]
    /\ ssub = 0
    /\ ApiOff /\ layout = <<>> /\ HashOff /\ SlotOff /\ TwinOff
    /\ DrawOff /\ LoopOff /\ ScaleOff /\ GridOff /\ LateOff

NextSteer ==
    \/ \E r \in SteerSpawns : SteerRebuild(r) /\ UNCHANGED notSteer
    \/ \E kx \in SteerKicks, imp \in ImpulseSet, m \in SteerMorphs :
          SteerSubStep(kx, imp, m) /\ UNCHANGED notSteer

SpecSteer == InitSteer /\ [][NextSteer]_vars

\* C20, as stated: whenever morph has replaced the body, the replacement
\* has the position, velocity, angle and angular velocity the original had,
\* wherever the original was relative to its cage.
C20_Original == srepl.done => srepl.new = srepl.old

\* C20, amended: a replacement made while the original is inside the padded
\* box of its cage has the original's position, velocity, angle and angular
\* velocity; one made while it is outside has the original's angle and
\* angular velocity, its position clamped into the box and 0.35 times its
\* velocity.
C20_Continuity ==
    srepl.done =>
        IF ~srepl.outside
        THEN srepl.new = srepl.old
        ELSE /\ srepl.new[1] = Clamp(srepl.old[1], scage.cx - SteerHalf(scage),
                                     scage.cx + SteerHalf(scage))
             /\ srepl.new[2] = Clamp(srepl.old[2], scage.cy - SteerHalf(scage),
                                     scage.cy + SteerHalf(scage))
             /\ srepl.new[3] = Trunc(7 * srepl.old[3], 20)
             /\ srepl.new[4] = Trunc(7 * srepl.old[4], 20)
             /\ srepl.new[5] = srepl.old[5]
             /\ srepl.new[6] = srepl.old[6]

\* C20 witness: morph has replaced a moving body that was outside the box,
\* and the replacement is elsewhere and slower
C20_ReplacedOutside ==
    /\ srepl.done
    /\ srepl.outside
    /\ srepl.old[3] # 0
    /\ srepl.new[1] # srepl.old[1]
    /\ srepl.new[3] # srepl.old[3]

\* C28: at the end of every force tick of the steering variant, before the
\* integrator runs, the body (one just made by a morph replacement
\* included) is within size / 2 - cagePadding of its cage's centre on both
\* axes; the cage changes only in a rebuild.
C28_InsideAfterTick ==
    /\ [](sforced # <<>> =>
            /\ sforced.x >= scage.cx - (scage.size \div 2 - cagePadding)
            /\ sforced.x <= scage.cx + (scage.size \div 2 - cagePadding)
            /\ sforced.y >= scage.cy - (scage.size \div 2 - cagePadding)
            /\ sforced.y <= scage.cy + (scage.size \div 2 - cagePadding))
    /\ [][(scage # <<>> /\ ssub' # 0) => scage' = scage]_vars

\* C28, its case: the integrator had carried the body out of the box, the
\* force tick replaced it by morph, and at the end of the tick the
\* replacement is on the edge of the box
C28_ReplacementHeld ==
    /\ sforced # <<>>
    /\ srepl.done
    /\ srepl.outside
    /\ srepl.old[1] > scage.cx + (scage.size \div 2 - cagePadding)
    /\ sforced.x = scage.cx + (scage.size \div 2 - cagePadding)

-----------------------------------------------------------------------------
(* The pointer (SpecMouse): the orchestrator's setMouse and resize          *)
(* (src/unnamed/part_002) and setMouse, resize and the mouse test of        *)
(* applyForces in the cage variant, for one body.  Lengths are whole        *)
(* pixels on a small canvas; mx and my are fractions <<numerator,           *)
(* denominator>>, as stored, not reduced.  The physics layer exists and     *)
(* has been resized to the window.                                          *)

\* window.innerWidth, window.innerHeight, in CSS pixels
MouseWindows == {<<3, 3>>, <<3, 2>>, <<2, 3>>}

\* Math.min(window.devicePixelRatio || 1, CONFIG.dprMax)
MouseDprs == {1, 2}

\* cfg.mouseRadius, in pixels of the small canvas
MouseRadii == {3}

\* setMouse of the physics layer: mx = MX / Math.max(w, 1); my = MY /
\* Math.max(h, 1)
PhysSetMouse(MX, MY, cv) ==
    [x |-> <<MX, Max(cv[1], 1)>>, y |-> <<MY, Max(cv[2], 1)>>]

\* mdx = b.position.x / wSafe - mx as a fraction: its numerator, over the
\* denominator wSafe * (denominator of mx)
OffsetNum(pos, len, m) == pos * m[2] - m[1] * Max(len, 1)
OffsetDen(len, m) == Max(len, 1) * m[2]

\* md < cfg.mouseRadius with md = Math.sqrt(mdx * mdx + mdy * mdy) *
\* Math.max(wSafe, hSafe), both sides squared and cleared of denominators
MouseNear(b, st, cv, r) ==
    (OffsetNum(b[1], cv[1], st.x) * OffsetNum(b[1], cv[1], st.x)
        * OffsetDen(cv[2], st.y) * OffsetDen(cv[2], st.y)
     + OffsetNum(b[2], cv[2], st.y) * OffsetNum(b[2], cv[2], st.y)
        * OffsetDen(cv[1], st.x) * OffsetDen(cv[1], st.x))
      * Max(Max(cv[1], 1), Max(cv[2], 1)) * Max(Max(cv[1], 1), Max(cv[2], 1))
    < r * r * OffsetDen(cv[1], st.x) * OffsetDen(cv[1], st.x)
            * OffsetDen(cv[2], st.y) * OffsetDen(cv[2], st.y)

\* positions of the body on a canvas: a corner and three points of the
\* sides
CanvasPoints(cv) ==
    {<<0, 0>>, <<cv[1] \div 3, 0>>, <<cv[1] \div 3, cv[2]>>,
     <<cv[1], cv[2] \div 2>>}

\* client positions of the pointer in a window: two corners, a point of
\* the top side and a point inside
ClientPoints(win) ==
    {<<0, 0>>, <<win.iw, 0>>, <<win.iw, win.ih>>, <<1, 1>>}

\* uniforms.uMouse.value.set(x * currentDpr, (window.innerHeight - y) *
\* currentDpr)
UMouse(cx, cy, win) == <<cx * win.dpr, (win.ih - cy) * win.dpr>>

\* setMouse(x, y) of the orchestrator, on mousemove and touchmove
OrchSetMouse(cx, cy) ==
    /\ mptr' = [done |-> TRUE, cx |-> cx, cy |-> cy, win |-> mwin]
    /\ mstore' = PhysSetMouse(UMouse(cx, cy, mwin)[1], UMouse(cx, cy, mwin)[2],
                              mcanvas)
    /\ UNCHANGED <<mwin, mcanvas, mbody, mres>>

\* resize() of the orchestrator, on the resize event of the window:
\* physicsApi.resize(w, h, currentDpr), whose rebuild places the body anew
OrchResize(d, dpr) ==
    /\ mwin' = [iw |-> d[1], ih |-> d[2], dpr |-> dpr]
    /\ mcanvas' = <<d[1] * dpr, d[2] * dpr>>
    /\ mbody' \in CanvasPoints(<<d[1] * dpr, d[2] * dpr>>)
    /\ UNCHANGED <<mstore, mres, mptr>>

\* the mouse repulsion of applyForces for the body
MouseTick(r) ==
    /\ mres' = [done |-> TRUE, applied |-> MouseNear(mbody, mstore, mcanvas, r),
                body |-> mbody, r |-> r, store |-> mstore, ptr |-> mptr]
    /\ UNCHANGED <<mwin, mcanvas, mstore, mbody, mptr>>

\* Engine.update moves the body
MouseAdvance(p) ==
    /\ p \in CanvasPoints(mcanvas)
    /\ mbody' = p
    /\ UNCHANGED <<mwin, mcanvas, mstore, mres, mptr>>

\* let mx = 0.5; let my = 0.5; and the first resize() of initPhysics
InitMouse ==
    /\ \E d \in MouseWindows, dpr \in MouseDprs :
          /\ mwin = [iw |-> d[1], ih |-> d[2], dpr |-> dpr]
          /\ mcanvas = <<d[1] * dpr, d[2] * dpr>>
          /\ mbody \in CanvasPoints(<<d[1] * dpr, d[2] * dpr>>)
    /\ mstore = [x |-> <<1, 2>>, y |-> <<1, 2>>]
    /\ mres = [done |-> FALSE]
    /\ mptr = [done |-> FALSE]
    /\ ApiOff /\ layout = <<>> /\ HashOff /\ SlotOff /\ TwinOff
    /\ DrawOff /\ LoopOff /\ ScaleOff /\ GridOff /\ SteerOff
    /\ TimerOff /\ ParamOff /\ WorldOff /\ LazyOff

NextMouse ==
    \/ \E c \in ClientPoints(mwin) :
          OrchSetMouse(c[1], c[2]) /\ UNCHANGED notMouse
    \/ \E d \in MouseWindows, dpr \in MouseDprs :
          OrchResize(d, dpr) /\ UNCHANGED notMouse
    \/ \E r \in MouseRadii : MouseTick(r) /\ UNCHANGED notMouse
    \/ \E p \in CanvasPoints(mcanvas) : MouseAdvance(p) /\ UNCHANGED notMouse

SpecMouse == InitMouse /\ [][NextMouse]_vars

\* C23: in a force pass after a pointer position has been stored, the mouse
\* force is applied to the body exactly if the distance in pixels between
\* the body and the stored pointer position is less than mouseRadius.
C23_Original ==
    (mres.done /\ mres.ptr.done) =>
        (mres.applied <=>
            (mres.body[1] - mres.store.x[1]) * (mres.body[1] - mres.store.x[1])
            + (mres.body[2] - mres.store.y[1]) * (mres.body[2] - mres.store.y[1])
            < mres.r * mres.r)

\* C24: after a pointer event, a body under the pointer - at the pointer's
\* client position times dpr, from the top left corner of the canvas - has
\* zero offset from the stored pointer position, on both axes.
C24_Original ==
    (mptr.done /\ mptr.win = mwin) =>
        /\ OffsetNum(mptr.cx * mwin.dpr, mcanvas[1], mstore.x) = 0
        /\ OffsetNum(mptr.cy * mwin.dpr, mcanvas[2], mstore.y) = 0

-----------------------------------------------------------------------------
(* The two timers of one body of the cage variant (SpecTimer): nextColor    *)
(* and nextMorph through rebuilds and calls of step.  Time is counted in    *)
(* tenths of a second here.                                                 *)

\* sub-steps of one call of step
MaxTimerSub == 3

\* the t of a call of step
TimerTimes == {0, 5, 8, 25, 26, 60, 200}

\* 0.7 + Math.random() * 2.2: both ends and a value between
ColorDelays == {7, 18, 29}

\* 2.0 + Math.random() * 6.0 in morph
MorphDelays == {20, 50, 80}

\* 2.0 + Math.random() * 5.0 in rebuildAll
FirstMorphDelays == {20, 70}

\* a mutation of ColorTimer: nextColor is left as it is
ColorTimerKeep(m, t, cd) == m

\* if (t >= meta.nextColor) { ...; meta.nextColor = t + (0.7 +
\* Math.random() * 2.2); }
ColorTimer(m, t, cd) ==
    IF t >= m.nextColor THEN [m EXCEPT !.nextColor = t + cd] ELSE m

\* if (t < meta.nextMorph) return; meta.nextMorph = t + (2.0 +
\* Math.random() * 6.0); and the scale or the rebuild path
MorphTimer(m, t, md) ==
    IF t < m.nextMorph THEN m ELSE [m EXCEPT !.nextMorph = t + md]

\* rebuildAll: nextMorph: 2.0 + Math.random() * 5.0, nextColor: 0.7 +
\* Math.random() * 2.2
TimerRebuild(cd, md) ==
    /\ tstep.pc = "idle"
    /\ tmeta' = [nextColor |-> cd, nextMorph |-> md]
    /\ UNCHANGED tstep

\* step(t, dt) up to its loop, with n sub-steps of debt
TimerStepBegin(t, n) ==
    /\ tstep.pc = "idle"
    /\ tmeta # <<>>
    /\ tstep' = [pc |-> "loop", t |-> t, left |-> n, sub |-> 0,
                 color |-> 0, morph |-> 0]
    /\ UNCHANGED tmeta

\* one turn of the loop: applyForces(t) calls morph(meta, t) for the body
TimerTick(cd, md) ==
    /\ tstep.pc = "loop"
    /\ tstep.left > 0
    /\ tmeta' = MorphTimer(ColorTimer(tmeta, tstep.t, cd), tstep.t, md)
    /\ tstep' = [tstep EXCEPT
                    !.left = @ - 1,
                    !.sub = @ + 1,
                    !.color = IF tstep.t >= tmeta.nextColor THEN @ + 1 ELSE @,
                    !.morph = IF tstep.t >= tmeta.nextMorph THEN @ + 1 ELSE @]

\* the loop ends, draw(t), return
TimerReturn ==
    /\ tstep.pc = "loop"
    /\ tstep.left = 0
    /\ tstep' = [tstep EXCEPT !.pc = "idle"]
    /\ UNCHANGED tmeta

InitTimer ==
    /\ tmeta = <<>>
    /\ tstep = [pc |-> "idle", t |-> 0, left |-> 0, sub |-> 0,
                color |-> 0, morph |-> 0]
    /\ ApiOff /\ layout = <<>> /\ HashOff /\ SlotOff /\ TwinOff
    /\ DrawOff /\ LoopOff /\ ScaleOff /\ GridOff /\ SteerOff
    /\ MouseOff /\ ParamOff /\ WorldOff /\ LazyOff

NextTimer ==
    \/ \E cd \in ColorDelays, md \in FirstMorphDelays :
          TimerRebuild(cd, md) /\ UNCHANGED notTimer
    \/ \E t \in TimerTimes, n \in 0..MaxTimerSub :
          TimerStepBegin(t, n) /\ UNCHANGED notTimer
    \/ \E cd \in ColorDelays, md \in MorphDelays :
          TimerTick(cd, md) /\ UNCHANGED notTimer
    \/ TimerReturn /\ UNCHANGED notTimer

SpecTimer == InitTimer /\ [][NextTimer]_vars

\* C25: a colour timer that fires at t is set to a time in [t + 0.7,
\* t + 2.9] and a morph timer that fires at t to a time in [t + 2, t + 8];
\* a timer that does not fire keeps its deadline, whatever the other does;
\* and in the sub-steps of one call of step each timer fires at most once.
C25_Timers ==
    /\ [](tstep.color <= 1 /\ tstep.morph <= 1)
    /\ [][(tstep.pc = "loop" /\ tstep'.sub = tstep.sub + 1) =>
            /\ IF tstep.t >= tmeta.nextColor
               THEN tmeta'.nextColor \in (tstep.t + 7)..(tstep.t + 29)
               ELSE tmeta'.nextColor = tmeta.nextColor
            /\ IF tstep.t >= tmeta.nextMorph
               THEN tmeta'.nextMorph \in (tstep.t + 20)..(tstep.t + 80)
               ELSE tmeta'.nextMorph = tmeta.nextMorph]_vars

\* C25, its case: in a call of step with three sub-steps both timers have
\* fired, once each.
C25_BothFired ==
    /\ tstep.pc = "idle"
    /\ tstep.sub = 3
    /\ tstep.color = 1
    /\ tstep.morph = 1

\* ---------------------------------------------------------------------
\* Physical parameters of a body (cage variant).  Restitution and air
\* friction are in thousandths; cfg is the configuration handed to
\* createPhysicsLayer, whose restitution and frictionAir are numbers
\* (NaN included) that no operation of the layer writes.
\* ---------------------------------------------------------------------

\* configured values of cfg.restitution and cfg.frictionAir
ParamValues == {Num(0), Num(12), Num(31), Num(50), Num(920), Num(2000), NaN}

\* the branches of makeBodyAt on kind = Math.random()
BodyKinds == {"circle", "rectangle", "polygon", "capsule"}

\* makeBodyAt: const common = { restitution: clamp(cfg.restitution, 0.85,
\* 0.98), frictionAir: clamp(cfg.frictionAir, 0.007, 0.030), ... }; every
\* branch passes common to the factory, makeCapsule to Body.create too
MakeBodyParams(cfg, kind, how) ==
    [kind |-> kind, how |-> how,
     restitution |-> ClampNum(cfg.restitution, 850, 980),
     frictionAir |-> ClampNum(cfg.frictionAir, 7, 30)]

\* applyForces, the damping line: b.frictionAir = clamp(cfg.frictionAir,
\* 0.007, 0.032)
Damping(cfg) == ClampNum(cfg.frictionAir, 7, 32)

\* rebuildAll: a body made by makeBodyAt
ParamCreate(kind) ==
    /\ pbody' = MakeBodyParams(pcfg, kind, "created")
    /\ UNCHANGED pcfg

\* applyForces for the body, morph not rebuilding: the damping line writes
\* the body's frictionAir
ParamTick ==
    /\ pbody # <<>>
    /\ pbody' = [pbody EXCEPT !.how = "ticked", !.frictionAir = Damping(pcfg)]
    /\ UNCHANGED pcfg

\* applyForces for the body, morph rebuilding: meta.body becomes a body made
\* by makeBodyAt; the damping line writes b, the body morph has removed
ParamReplace(kind) ==
    /\ pbody # <<>>
    /\ pbody' = MakeBodyParams(pcfg, kind, "replaced")
    /\ UNCHANGED pcfg

\* createPhysicsLayer(canvas, cfg, ...): let metas = []
InitParam ==
    /\ pcfg \in [restitution : ParamValues, frictionAir : ParamValues]
    /\ pbody = <<>>
    /\ ApiOff /\ layout = <<>> /\ HashOff /\ SlotOff /\ TwinOff
    /\ DrawOff /\ LoopOff /\ ScaleOff /\ GridOff /\ SteerOff
    /\ MouseOff /\ TimerOff /\ WorldOff /\ LazyOff

NextParam ==
    \/ \E kind \in BodyKinds : ParamCreate(kind) /\ UNCHANGED notParam
    \/ ParamTick /\ UNCHANGED notParam
    \/ \E kind \in BodyKinds : ParamReplace(kind) /\ UNCHANGED notParam

SpecParam == InitParam /\ [][NextParam]_vars

\* C27 as stated: for any configured restitution and frictionAir, every body
\* (at creation, after a force tick, after a morph replacement) has
\* restitution in [0.85, 0.98] and air friction in [0.007, 0.032].
C27_Original ==
    pbody # <<>> =>
        /\ ~pbody.restitution.nan
        /\ pbody.restitution.v >= 850 /\ pbody.restitution.v <= 980
        /\ ~pbody.frictionAir.nan
        /\ pbody.frictionAir.v >= 7 /\ pbody.frictionAir.v <= 32

-----------------------------------------------------------------------------
(* The world of the spatial-hash variant (SpecWorld, src/unnamed/part_004)  *)
(* through resize and setDensity.  hw holds the arrays bounds, bodies and   *)
(* constraints of the layer and the lists of the Matter world               *)
(* (world.bodies, world.constraints) as sets; every object made has the     *)
(* number of the rebuild that made it in its id.  Positions of the moving   *)
(* bodies are left out: any body may be a candidate of any other, at any    *)
(* distance.                                                                *)

\* calls followed
MaxWorldCalls == 3

\* const thick = 160
thick == 160

\* V.springLenMin, V.springLenMax
springLenMin == 40
springLenMax == 120

\* arguments of resize(W, H, dpr)
WorldDims == {<<800, 600>>, <<400, 300>>}

\* arguments of setDensity, in halves (44 is 22, 161 is 80.5, 2000 is 1000)
WorldDensities == {44, 161, 300, 2000}

\* the draws of addMicroSprings for a body: the index drawn among the bodies
\* (1: the first, 2: the second, 3: the last) and the distance to it
SpringDraws == {<<1, 60>>, <<2, 40>>, <<3, 120>>, <<2, 39>>, <<2, 121>>}

\* Bodies.rectangle(x, y, width, height, { isStatic: true }) of rebuild g
Wall(g, side, x, y, wd, ht) ==
    [id |-> <<g, 0 - side>>, isStatic |-> TRUE,
     x |-> x, y |-> y, wd |-> wd, ht |-> ht]

\* the four rectangles of rebuildBounds
BoundsOf(g, W, H) ==
    << Wall(g, 1, W \div 2, 0 - thick \div 2, W + thick * 2, thick),
       Wall(g, 2, W \div 2, H + thick \div 2, W + thick * 2, thick),
       Wall(g, 3, 0 - thick \div 2, H \div 2, thick, H + thick * 2),
       Wall(g, 4, W + thick \div 2, H \div 2, thick, H + thick * 2) >>

\* makeBody(i, pts[i % pts.length]) of rebuild g
MakeBody(g, i) ==
    [id |-> <<g, i>>, isStatic |-> FALSE, x |-> 0, y |-> 0, wd |-> 0, ht |-> 0]

\* rebuildBounds: bounds.forEach((b) => Composite.remove(world, b));
\* bounds = [...]; Composite.add(world, bounds)
RebuildBounds(s, g, W, H) ==
    [s EXCEPT !.bounds = BoundsOf(g, W, H),
              !.world.bodies = (@ \ Range(s.bounds)) \cup Range(BoundsOf(g, W, H))]

\* a mutation of ClearAll: the constraints stay in the world
ClearAllBodiesOnly(s) ==
    [s EXCEPT !.world.bodies = @ \ Range(s.bodies),
              !.bodies = <<>>, !.constraints = {}]

\* clearAll: remove the bodies and the constraints from the world, empty
\* both arrays
ClearAll(s) ==
    [s EXCEPT !.world.bodies = @ \ Range(s.bodies),
              !.world.constraints = @ \ s.constraints,
              !.bodies = <<>>, !.constraints = {}]

\* the body a draw selects: candidates[(Math.random() * length) | 0]
Drawn(bs, o) == IF o = 1 THEN bs[1] ELSE IF o = 2 THEN bs[2] ELSE bs[Len(bs)]

\* addMicroSprings, the loop body for b: if (other === b) continue;
\* if (d < V.springLenMin || d > V.springLenMax) continue; constraints.push
SpringsOf(bs, k, dr) ==
    IF Drawn(bs, dr[1]) = bs[k] \/ dr[2] < springLenMin \/ dr[2] > springLenMax
    THEN {}
    ELSE {[bodyA |-> bs[k], bodyB |-> Drawn(bs, dr[1]), length |-> dr[2]]}

\* addMicroSprings: the constraints of the first and of the last body stand
\* for those of all; if (constraints.length) Composite.add(world, constraints)
AddMicroSprings(s, d1, d2) ==
    LET cs == SpringsOf(s.bodies, 1, d1) \cup SpringsOf(s.bodies, Len(s.bodies), d2)
    IN  [s EXCEPT !.constraints = @ \cup cs,
                  !.world.constraints = @ \cup s.constraints \cup cs]

\* rebuildBodies: clearAll(); cfg.count bodies pushed; Composite.add(world,
\* bodies); addMicroSprings()
RebuildBodies(s, g, n, d1, d2) ==
    LET c == ClearAll(s)
        bs == [i \in 1..n |-> MakeBody(g, i)]
    IN  AddMicroSprings([c EXCEPT !.bodies = bs,
                                  !.world.bodies = @ \cup Range(bs)], d1, d2)

\* resize: w = W; h = H; ...; rebuildBounds(); rebuildBodies()
WorldResize(d, d1, d2) ==
    /\ hcfg.calls < MaxWorldCalls
    /\ hcfg' = [hcfg EXCEPT !.w = d[1], !.h = d[2], !.gen = @ + 1,
                            !.calls = @ + 1, !.resized = TRUE,
                            !.last = "resize"]
    /\ \E s \in {RebuildBounds(hw, hcfg.gen + 1, d[1], d[2])} :
          hw' = RebuildBodies(s, hcfg.gen + 1, hcfg.count, d1, d2)

\* setDensity: const c = clamp(Math.round(count), 80, 220);
\* if (c === cfg.count) return; cfg.count = c; rebuildBodies()
WorldSetDensity(n2, d1, d2) ==
    /\ hcfg.calls < MaxWorldCalls
    /\ LET c == ClampDensity("hash", n2)
       IN  IF c = hcfg.count
           THEN /\ hcfg' = [hcfg EXCEPT !.calls = @ + 1, !.last = "return"]
                /\ UNCHANGED hw
           ELSE /\ hcfg' = [hcfg EXCEPT !.count = c, !.gen = @ + 1,
                                        !.calls = @ + 1, !.last = "setDensity"]
                /\ hw' = RebuildBodies(hw, hcfg.gen + 1, c, d1, d2)

\* createPhysicsLayer: let bounds = []; let bodies = []; let constraints =
\* []; let w = 0; let h = 0; the world of Engine.create() is empty
InitWorld ==
    /\ hw = [bounds |-> <<>>, bodies |-> <<>>, constraints |-> {},
             world |-> [bodies |-> {}, constraints |-> {}]]
    /\ \E n \in {22, 80} :
          hcfg = [w |-> 0, h |-> 0, count |-> n, gen |-> 0, calls |-> 0,
                  resized |-> FALSE, last |-> "none"]
    /\ ApiOff /\ layout = <<>> /\ HashOff /\ SlotOff /\ TwinOff
    /\ DrawOff /\ LoopOff /\ ScaleOff /\ GridOff /\ SteerOff
    /\ MouseOff /\ TimerOff /\ ParamOff /\ LazyOff

NextWorld ==
    \/ \E d \in WorldDims, d1 \in SpringDraws, d2 \in SpringDraws :
          WorldResize(d, d1, d2) /\ UNCHANGED notWorld
    \/ \E n2 \in WorldDensities, d1 \in SpringDraws, d2 \in SpringDraws :
          WorldSetDensity(n2, d1, d2) /\ UNCHANGED notWorld

SpecWorld == InitWorld /\ [][NextWorld]_vars

\* C29: once resize has been called, after every resize and setDensity the
\* world holds exactly four static walls, those of the latest resize (its
\* width and height), exactly cfg.count moving bodies, those of the bodies
\* array, and constraints that each connect two distinct moving bodies of
\* the world.
C29_WorldContents ==
    hcfg.resized =>
        LET walls == {b \in hw.world.bodies : b.isStatic}
            moving == {b \in hw.world.bodies : ~b.isStatic}
        IN  /\ Cardinality(walls) = 4
            /\ \A b \in walls :
                  \E k \in 1..4 :
                     \E e \in {BoundsOf(b.id[1], hcfg.w, hcfg.h)[k]} : b = e
            /\ Cardinality(moving) = hcfg.count
            /\ moving = Range(hw.bodies)
            /\ \A c \in hw.world.constraints :
                  /\ c.bodyA # c.bodyB
                  /\ c.bodyA \in moving
                  /\ c.bodyB \in moving

\* C29, its case: a resize, then a setDensity that rebuilt the bodies, both
\* with springs: the world holds springs and bodies of the later rebuild
\* and the walls of the earlier one
C29_RebuiltAfterResize ==
    /\ hcfg.resized
    /\ hcfg.last = "setDensity"
    /\ hcfg.gen >= 2
    /\ hw.world.constraints # {}
    /\ \A b \in hw.world.bodies : b.isStatic <=> b.id[1] < hcfg.gen

-----------------------------------------------------------------------------
(* The deferred start of the physics layer (SpecLazy, src/unnamed/part_002): *)
(* the tasks of the page (animation frames, the start timer, the settling   *)
(* of the module import, resize and pointer events) run one at a time, each *)
(* to its end, in any order.  lzlog is the sequence of calls made on the    *)
(* physics layer; lz.error is set by a call on physicsApi while it is null. *)

\* tasks followed after the script has run
MaxLazyEvents == 5

\* a call of a method of physicsApi: a TypeError while it is null
LazyCall(s, log, ops) ==
    IF s.api THEN <<s, log \o ops>>
    ELSE <<[s EXCEPT !.error = TRUE], log>>

\* one more task has run
LazyDone(s) == [s EXCEPT !.events = @ + 1]

\* the timer of startDelayMs fires: initPhysics up to its await;
\* if (!CONFIG.physics.enabled || CONFIG.reducedMotion) return
LazyTimerFires ==
    /\ lz.events < MaxLazyEvents
    /\ lz.timer = "pending"
    /\ lz' = LazyDone([lz EXCEPT !.timer = "fired",
                                 !.import = IF ~lz.enabled \/ lz.reduced
                                            THEN "none" ELSE "pending"])
    /\ UNCHANGED lzlog

\* a mutation of LazyImportResolves: initPhysics does not end with resize()
LazyImportResolvesNoResize ==
    /\ lz.events < MaxLazyEvents
    /\ lz.import = "pending"
    /\ \E r \in {LazyCall([lz EXCEPT !.import = "done", !.api = TRUE], lzlog,
                          <<"create", "setMood", "setMode">>)} :
          /\ lz' = LazyDone(r[1])
          /\ lzlog' = r[2]

\* the import settles with the module: the rest of initPhysics, in one
\* task: physicsApi = mod.createPhysicsLayer(...); setMood; setMode;
\* applyGradeToBody(); resize(), which calls physicsApi.resize and
\* physicsApi.setDensity since physicsApi is set
LazyImportResolves ==
    /\ lz.events < MaxLazyEvents
    /\ lz.import = "pending"
    /\ \E r \in {LazyCall([lz EXCEPT !.import = "done", !.api = TRUE], lzlog,
                          <<"create", "setMood", "setMode", "resize",
                            "setDensity">>)} :
          /\ lz' = LazyDone(r[1])
          /\ lzlog' = r[2]

\* the import is rejected: initPhysics ends there, physicsApi stays null
LazyImportFails ==
    /\ lz.events < MaxLazyEvents
    /\ lz.import = "pending"
    /\ lz' = LazyDone([lz EXCEPT !.import = "failed"])
    /\ UNCHANGED lzlog

\* loop(now): if (physicsApi && !CONFIG.reducedMotion) { setMood; setMode;
\* applyGradeToBody(); physicsApi.step(t, dt) }
LazyFrame ==
    /\ lz.events < MaxLazyEvents
    /\ IF lz.api /\ ~lz.reduced
       THEN \E r \in {LazyCall(lz, lzlog, <<"setMood", "setMode", "step">>)} :
               /\ lz' = LazyDone(r[1])
               /\ lzlog' = r[2]
       ELSE /\ lz' = LazyDone(lz)
            /\ UNCHANGED lzlog

\* the resize listener: resize(); if (physicsApi) { physicsApi.resize(...);
\* physicsApi.setDensity(...) }
LazyResizeEvent ==
    /\ lz.events < MaxLazyEvents
    /\ IF lz.api
       THEN \E r \in {LazyCall(lz, lzlog, <<"resize", "setDensity">>)} :
               /\ lz' = LazyDone(r[1])
               /\ lzlog' = r[2]
       ELSE /\ lz' = LazyDone(lz)
            /\ UNCHANGED lzlog

\* the mousemove and touchmove listeners: setMouse(x, y);
\* if (physicsApi) physicsApi.setMouse(...)
LazyPointerEvent ==
    /\ lz.events < MaxLazyEvents
    /\ IF lz.api
       THEN \E r \in {LazyCall(lz, lzlog, <<"setMouse">>)} :
               /\ lz' = LazyDone(r[1])
               /\ lzlog' = r[2]
       ELSE /\ lz' = LazyDone([lz EXCEPT !.early = TRUE])
            /\ UNCHANGED lzlog

\* the script has run: let physicsApi = null; setTimeout(initPhysics,
\* startDelayMs); resize() with physicsApi null; requestAnimationFrame(loop);
\* CONFIG.reducedMotion is the media query's answer
InitLazy ==
    /\ \E red \in BOOLEAN, en \in BOOLEAN :
          lz = [reduced |-> red, enabled |-> en, timer |-> "pending",
                import |-> "none", api |-> FALSE, error |-> FALSE,
                early |-> FALSE, events |-> 0]
    /\ lzlog = <<>>
    /\ ApiOff /\ layout = <<>> /\ HashOff /\ SlotOff /\ TwinOff
    /\ DrawOff /\ LoopOff /\ ScaleOff /\ GridOff /\ SteerOff
    /\ MouseOff /\ TimerOff /\ ParamOff /\ WorldOff

NextLazy ==
    \/ LazyTimerFires /\ UNCHANGED notLazy
    \/ LazyImportResolves /\ UNCHANGED notLazy
    \/ LazyImportFails /\ UNCHANGED notLazy
    \/ LazyFrame /\ UNCHANGED notLazy
    \/ LazyResizeEvent /\ UNCHANGED notLazy
    \/ LazyPointerEvent /\ UNCHANGED notLazy

SpecLazy == InitLazy /\ [][NextLazy]_vars

\* C30: in every order of the tasks, every step call on the physics layer
\* comes after the layer's creation and a resize of it; no call is made on
\* the layer while it does not exist (no error); with reduced motion no
\* call is ever made on the layer, which is never created.
C30_LazyInit ==
    /\ \A i \in 1..Len(lzlog) :
          lzlog[i] = "step" =>
              \E j \in 1..(i - 1) :
                 /\ lzlog[j] = "resize"
                 /\ \E k \in 1..(j - 1) : lzlog[k] = "create"
    /\ ~lz.error
    /\ lz.reduced => (lzlog = <<>> /\ ~lz.api)
    /\ lz.api <=> (lzlog # <<>> /\ lzlog[1] = "create")

\* C30, its case: a pointer event came before the layer existed, and the
\* frame right after the import settled has stepped the layer
C30_SteppedAfterInit ==
    /\ lz.early
    /\ Len(lzlog) = 8
    /\ lzlog[8] = "step"
    /\ lzlog[4] = "resize"

====
